---------------------------- MODULE Spec2Model ----------------------------
(***************************************************************************)
(* Model of the ComfyUI supervisor (src/app/handler.py): the process       *)
(* manager ComfyUIManager, the debounced HealthChecker, the crash-monitor  *)
(* thread, the health-monitor loop and the control-surface requests, and   *)
(* of the job entry points (src/app/handler.py, src/rp_handler.py,         *)
(* src/dev/rp_handler.py, src/app/rp_handler.py), of the load balancer in  *)
(* front of the workers (src/app/app.py) and of the template handler with  *)
(* its mock API (src/test-api-dev-local).                                  *)
(*                                                                         *)
(* Threads of the supervisor process:                                      *)
(*   "api"       the asyncio event loop: startup_event and the request     *)
(*               handlers, which call the manager synchronously, one       *)
(*               request at a time;                                        *)
(*   "hl"        health_monitor_loop, started by startup_event;            *)
(*   "m1","m2"   threads running ComfyUIManager._monitor, started by       *)
(*               start().                                                  *)
(* The manager takes no lock, so a step of one thread may come between any *)
(* two steps of another.  One action is one stretch of a method between    *)
(* two points where it blocks (Popen, Popen.wait, an HTTP call) or where   *)
(* a test of shared state is followed by a write that depends on it (the   *)
(* debounce gate, the monitor-thread test).  A sleep (lines 197, 222, 226, *)
(* 298) only delays the thread: the step after it is taken at any later    *)
(* moment, and the clock advances independently.                           *)
(*                                                                         *)
(* The specifications share the actions: Spec (the supervisor with         *)
(* clients that restart, stop and kill the engine), HealthSpec (the        *)
(* supervisor with clients that poll GET /health), SelfHealSpec (the       *)
(* supervisor left to itself, its monitor threads scheduled fairly),       *)
(* JobSpec (jobs arriving at the entry points of a started supervisor)     *)
(* and FairJobSpec (such jobs with their coroutine run to its end),        *)
(* RestartSpec (the supervisor with clients that POST /restart),           *)
(* SpliceSpec (a worker splicing the input of a job into its workflow and  *)
(* posting it, for every workflow and input), BalancerSpec (workers        *)
(* registering, reporting and timing out while requests are routed) and    *)
(* FairBalancerSpec (the same with the balancer's background tasks run),   *)
(* OverlapSpec (calls of one entry point that overlap on one engine) and   *)
(* TemplateSpec (the template handler called directly and through the      *)
(* mock API, for every event).  In all of them every thread of the         *)
(* supervisor that has been started runs.                                  *)
(*                                                                         *)
(* The engine is the environment of a job: every request to it ends with   *)
(* any of the answers its HTTP interface allows.                           *)
(***************************************************************************)
EXTENDS Integers, Sequences, FiniteSets, TLC

(* ------------------------------ bounds -------------------------------- *)
\* Popen succeeds at most MaxSpawn times; afterwards every spawn fails.
MaxSpawn == 3
\* time.time() when the supervisor starts, in seconds.
Epoch == 100
\* The clock is observed at MaxTicks moments after the start.
MaxTicks == 2
\* consecutive_failures is counted up to MaxCount: a check that would add to
\* it beyond that is not made.
MaxCount == 3
\* The deadline of a job's poll loop falls after MaxPolls rounds of the loop.
MaxPolls == 2
\* The worker's start-up probe is tried MaxRetries times (max_retries).
MaxRetries == 2
\* The history of a finished prompt lists up to MaxImages images.
MaxImages == 2
\* Where the end of every job is checked, up to MaxListed images.
MaxListed == 1
\* The workers that register with the load balancer are numbered 1..MaxWorkers.
MaxWorkers == 2
\* A workflow has up to MaxNodes nodes.
MaxNodes == 2
\* Up to MaxJobs jobs are in one entry point at a time.
MaxJobs == 2
\* The load balancer receives up to MaxRequests POST /submit_workflow requests.
MaxRequests == 3

(* ------------------------- program constants -------------------------- *)
None == 0
health_check_interval == 10
max_failures == 3
restart_cooldown == 60
\* handler.py:116 initialises the public attribute max_restarts to 10; the
\* throttling contract is stated for the value 2, and the rule of lines
\* 128-129 is the same for every value.
max_restarts == 2
autorestart == TRUE
\* src/app/app.py lines 60-61.
WORKER_TIMEOUT == 30
MAX_QUEUE_SIZE == 100

Monitors == {"m1", "m2"}
Threads == {"api", "hl"} \cup Monitors
HealthCallers == {"api", "hl"}
Pids == 1..(MaxSpawn + 1)

VARIABLES
    \* ComfyUIManager fields
    process,            \* pid of the Popen object held in self.process, or None
    running,
    restart_count,
    last_restart,
    monitor_thread,     \* the thread in self.monitor_thread, or "None"
    \* the operating system
    live,               \* pids of the child processes that are alive
    nextPid,            \* number of children spawned so far
    clock,              \* the number of moments the clock has advanced by
    \* HealthChecker fields
    last_health_check,
    consecutive_failures,
    \* threads
    pc,                 \* where each thread is
    op,                 \* the operation the thread is executing for its caller
    cur,                \* the local current_time of start() / check_health()
    ret,                \* what the last call made for a request returned
    sent,               \* the pids the thread's running stop() has sent SIGTERM
    branch,             \* the early return the last manager call of a request took,
                        \* or the answer the probe of its check_health() got
    streak,             \* check_health calls in a row that judged a failure
    counted,            \* those of them made since the counter was last cleared
    entered,            \* restart_count, the handle and the number of children
                        \* when the restart() of POST /restart was entered
    \* a job on its way through an entry point
    entry,              \* the entry point that was called
    payload,            \* the "workflow" value of the job
    uploads,            \* number of entries of the "images" list of the job
    initialized,        \* handler.initialized and worker.initialized
    jpc,                \* where the job is
    calls,              \* kinds of the HTTP requests sent to the engine for the job
    polls,              \* rounds of the poll loop that found nothing
    retries,            \* retry_count of the worker's start-up probe
    late,               \* the poll loop has run into its deadline
    seen,               \* the last answer to GET /history that a round of the job
                        \* was not given up with
    fetches,            \* the answers to the GET /view requests of that round
    outcome,            \* what the entry point returned
    prompt_id,          \* what the submission of the job returned as its identifier
    \* the input splicing of the workers
    workflow,           \* the nodes of workflow_data, in the order of the payload
    received,           \* the nodes as they were in the job
    input_data,         \* the "input" value of the job
    posted,             \* the nodes in the payload of the last POST /prompt
    failed,             \* _inject_input_data ended in its except branch
    \* jobs that overlap at one entry point, and the engine they share
    jobs,               \* the locals of the coroutine of each job
    given,              \* the identifier the engine returned to each job
    issued,             \* number of identifiers the engine has issued
    engine,             \* where the engine is with the prompt of each identifier
    \* the template handler behind the mock API (src/test-api-dev-local)
    event,              \* the "input" of the event, or the fields of the request
    result,             \* what ComfyUIHandler.handler returned for it
    status_code,        \* the HTTP status of the answer of POST /runsync
    \* the load balancer (src/app/app.py)
    workers,            \* the dict workers, in the order of its keys
    request_queue,      \* the numbers of the requests in request_queue
    request_count,
    active_jobs,        \* job_id -> worker_id; a job has the number of its request
    forwards,           \* the background tasks forward_to_worker not yet run
    reply               \* the answer of the last POST /submit_workflow

mgrVars == <<process, running, restart_count, last_restart, monitor_thread>>
osVars  == <<live, nextPid>>
hcVars  == <<last_health_check, consecutive_failures, streak, counted>>
thrVars == <<pc, op, cur, ret, sent, branch>>
supVars == <<mgrVars, osVars, clock, hcVars, thrVars, entered>>
jobVars == <<entry, payload, uploads, initialized, jpc, calls, polls, retries, late,
             seen, fetches, outcome, prompt_id>>
lbVars  == <<workers, request_queue, request_count, active_jobs, forwards, reply>>
spliceVars == <<workflow, received, input_data, posted, failed>>
ovVars  == <<jobs, given, issued, engine>>
tplVars == <<event, result, status_code>>
vars    == <<supVars, jobVars, lbVars, spliceVars, ovVars, tplVars>>

\* The moments at which the clock is read lie where the two time tests of
\* the program change their answer: health_check_interval and
\* restart_cooldown seconds after one another.
Offset(i) == (i \div 2) * restart_cooldown + (i % 2) * health_check_interval

\* time.time()
now == Epoch + Offset(clock)

(* -------------------------------- Init -------------------------------- *)
\* The entry points of a job: process_workflow (src/app/handler.py),
\* handler_async (src/rp_handler.py), process_job (src/dev/rp_handler.py),
\* handler (src/app/rp_handler.py).
Entries == {"process_workflow", "handler_async", "process_job", "handler"}

\* The two entry points that go through a worker object with initialize().
Workers == {"handler_async", "process_job"}

\* The "workflow" value of a job: the key is missing, an empty dict, a graph
\* with the keys "nodes" and "links", a dict of nodes keyed by node id.  And
\* the jobs that are not of that form: a job object without the key "input",
\* a job whose input is a list that is not empty.
Payloads == {"missing", "empty", "graph", "flat", "no input", "not a mapping"}

Malformed == {"no input", "not a mapping"}

\* The jobs an entry point can be called with: the request of POST
\* /process_workflow is a dict (request: dict, src/app/handler.py line 371).
Jobs(e) == IF e = "process_workflow" THEN Payloads \ Malformed ELSE Payloads

NoOutcome == [status |-> "none", message |-> "none", reason |-> <<>>, images |-> <<>>]

\* No answer to GET /history.
NoHistory ==
    [http |-> "none", found |-> FALSE, marker |-> "none", messages |-> <<>>,
     images |-> <<>>]

\* No job has arrived; no worker object has been initialised.
NoJob ==
    /\ entry = "none"
    /\ payload = "missing"
    /\ uploads = 0
    /\ initialized = [e \in Workers |-> FALSE]
    /\ jpc = "idle"
    /\ calls = {}
    /\ polls = 0
    /\ retries = 0
    /\ late = FALSE
    /\ seen = NoHistory
    /\ fetches = <<>>
    /\ outcome = NoOutcome
    /\ prompt_id = "unset"

\* A job without an "input" value: job_input.get('input', {}).
NoInput == [mapping |-> TRUE, keys |-> {}, image_ok |-> TRUE]

\* No workflow with nodes has arrived and nothing was posted.
NoSplice ==
    /\ workflow = <<>>
    /\ received = <<>>
    /\ input_data = NoInput
    /\ posted = <<>>
    /\ failed = FALSE

\* The jobs that may overlap, and the identifiers the engine issues to them.
Slots == 1..MaxJobs

Ids == 1..MaxJobs

\* The locals of a job that has not arrived.
NotArrived ==
    [pc |-> "idle", prompt_id |-> None, outcome |-> NoOutcome]

\* No overlapping jobs; the engine has no prompt.
NoOverlap ==
    /\ jobs = [j \in Slots |-> NotArrived]
    /\ given = [j \in Slots |-> None]
    /\ issued = 0
    /\ engine = [i \in Ids |-> "none"]

\* An event without fields, and no call of the template handler.
NoEvent ==
    [mapping |-> TRUE, prompt |-> "missing",
     width |-> [type |-> "missing", n |-> 0], height |-> [type |-> "missing", n |-> 0]]

NoResult == [status |-> "none", error |-> "none"]

NoCall ==
    /\ event = NoEvent
    /\ result = NoResult
    /\ status_code = 0

\* No POST /restart has been made.
NotEntered == [count |-> 0, pid |-> None, spawned |-> 0]

NoReply == [status |-> "none", worker_id |-> None]

\* The module-level objects of the load balancer (src/app/app.py lines 54-57).
NoFleet ==
    /\ workers = <<>>
    /\ request_queue = <<>>
    /\ request_count = 0
    /\ active_jobs = <<>>
    /\ forwards = {}
    /\ reply = NoReply

\* The module-level objects as constructed: manager = ComfyUIManager(),
\* health_checker = HealthChecker(manager); no thread but the event loop.
Init ==
    /\ NoJob
    /\ NoFleet
    /\ NoSplice
    /\ NoOverlap
    /\ NoCall
    /\ process = None
    /\ running = FALSE
    /\ restart_count = 0
    /\ last_restart = 0
    /\ monitor_thread = "None"
    /\ live = {}
    /\ nextPid = 0
    /\ clock = 0
    /\ last_health_check = 0
    /\ consecutive_failures = 0
    /\ pc = [t \in Threads |-> IF t = "api" THEN "startup" ELSE "dead"]
    /\ op = [t \in Threads |-> "none"]
    /\ cur = [t \in Threads |-> 0]
    /\ ret = [t \in Threads |-> "None"]
    /\ sent = [t \in Threads |-> {}]
    /\ branch = "none"
    /\ streak = 0
    /\ counted = 0
    /\ entered = NotEntered

(* ----------------------------- helpers -------------------------------- *)
\* self.process and self.process.poll() is None
Alive == process # None /\ process \in live

\* Lines 200-204.
is_running == process # None /\ process \in live /\ running

\* Lines 206-215: the snapshot GET /status returns; pid is the pid of the
\* handle whenever there is a handle.
get_status ==
    [running       |-> is_running,
     pid           |-> IF process # None THEN process ELSE None,
     restart_count |-> restart_count,
     last_restart  |-> last_restart,
     uptime        |-> IF last_restart # 0 THEN now - last_restart ELSE 0]

\* Thread.is_alive() of the object in self.monitor_thread.
is_alive(m) == m # "None" /\ pc[m] # "dead"

\* Where a thread goes when start() returns r to it: _monitor leaves its loop
\* on False (lines 223-225) and sleeps on True; health_monitor_loop clears the
\* counter on True (line 287) and sleeps on False; startup_event starts the
\* health thread on True (lines 262-268).
StartRet(t, r) ==
    IF t \in Monitors THEN (IF r THEN "mon_loop" ELSE "mon_exit")
    ELSE IF t = "hl" THEN (IF r THEN "hl_reset" ELSE "hc_gate")
    ELSE IF op[t] = "startup" THEN (IF r THEN "startup_health" ELSE "idle")
    ELSE "idle"

\* Where a thread goes when stop() returns to it: restart() goes on to
\* start() after its settle delay (lines 196-198).
StopRet(t) == IF op[t] = "restart" THEN "start_check" ELSE "idle"

\* Where a thread goes when an exception leaves a manager method: the health
\* loop catches it (line 295) and sleeps; on the event loop the request fails.
RaiseRet(t) == IF t = "hl" THEN "hc_gate" ELSE "idle"

\* Lines 55-92: the "consecutive_failures" entry of the result check_health()
\* returns with status s when the counter is at n: the counter for an error,
\* the literal 0 for "starting" and "healthy".
Reported(s, n) == IF s = "error" THEN n ELSE 0

\* Lines 94-96, for a counter at n.
ShouldRestart(n) == n >= max_failures

should_restart == ShouldRestart(consecutive_failures)

\* Where a thread goes when check_health() returns status s with the counter
\* at n: health_monitor_loop (line 283) calls manager.restart() on an error
\* once should_restart() holds (lines 94-96), else sleeps.
HcRet(t, s, n) ==
    IF t = "hl"
    THEN (IF s = "error" /\ ShouldRestart(n) THEN "stop_check" ELSE "hc_gate")
    ELSE "idle"

Goto(t, l) == pc' = [pc EXCEPT ![t] = l]

\* The early return a manager call takes ("none" when it runs to its end),
\* kept for the calls of the event loop.
Took(t, b) == branch' = IF t = "api" THEN b ELSE branch

\* A call that ends with result r; the thread goes on at l.
Leave(t, l, r) ==
    /\ Goto(t, l)
    /\ ret' = [ret EXCEPT ![t] = IF t = "api" THEN r ELSE "None"]
    /\ op' = [op EXCEPT ![t] = IF l \in {"idle", "hc_gate"} THEN "none"
                               ELSE IF t = "hl" /\ l = "stop_check" THEN "restart"
                               ELSE @]
    /\ sent' = [sent EXCEPT ![t] = {}]

(* ------------------------ ComfyUIManager.start ------------------------ *)
\* start() without the already-running test of lines 122-124.
StartCheck_NoRunningTest(t) ==
    /\ pc[t] = "start_check"
    /\ IF restart_count >= max_restarts /\ now - last_restart < restart_cooldown
         THEN /\ Leave(t, StartRet(t, FALSE), "False")
              /\ Took(t, "throttled")
              /\ UNCHANGED cur
         ELSE /\ Goto(t, "start_spawn")
              /\ cur' = [cur EXCEPT ![t] = now]
              /\ UNCHANGED <<op, ret, sent, branch>>
    /\ UNCHANGED <<tplVars, ovVars, entered, lbVars, spliceVars, jobVars, mgrVars, osVars, clock, hcVars>>

\* start() without the restart limit of lines 127-131.
StartCheck_NoThrottle(t) ==
    /\ pc[t] = "start_check"
    /\ IF Alive
         THEN /\ Leave(t, StartRet(t, TRUE), "True")
              /\ Took(t, "already running")
              /\ UNCHANGED cur
         ELSE /\ Goto(t, "start_spawn")
              /\ cur' = [cur EXCEPT ![t] = now]
              /\ UNCHANGED <<op, ret, sent, branch>>
    /\ UNCHANGED <<tplVars, ovVars, entered, lbVars, spliceVars, jobVars, mgrVars, osVars, clock, hcVars>>

\* Lines 122-131: the already-running test and the restart limit.
StartCheck(t) ==
    /\ pc[t] = "start_check"
    /\ IF Alive
         THEN /\ Leave(t, StartRet(t, TRUE), "True")
              /\ Took(t, "already running")
              /\ UNCHANGED cur
         ELSE IF restart_count >= max_restarts /\ now - last_restart < restart_cooldown
         THEN /\ Leave(t, StartRet(t, FALSE), "False")
              /\ Took(t, "throttled")
              /\ UNCHANGED cur
         ELSE /\ Goto(t, "start_spawn")
              /\ cur' = [cur EXCEPT ![t] = now]
              /\ UNCHANGED <<op, ret, sent, branch>>
    /\ UNCHANGED <<tplVars, ovVars, entered, lbVars, spliceVars, jobVars, mgrVars, osVars, clock, hcVars>>

\* Lines 134-147: self.process = subprocess.Popen(...), which the operating
\* system may refuse (the except branch of line 159).
StartSpawn(t) ==
    /\ pc[t] = "start_spawn"
    /\ \/ /\ nextPid < MaxSpawn
          /\ nextPid' = nextPid + 1
          /\ live' = live \cup {nextPid + 1}
          /\ process' = nextPid + 1
          /\ Goto(t, "start_record")
          /\ UNCHANGED <<op, cur, ret, sent, branch>>
       \/ /\ Leave(t, StartRet(t, FALSE), "False")
          /\ Took(t, "none")
          /\ cur' = [cur EXCEPT ![t] = 0]
          /\ UNCHANGED <<process, live, nextPid>>
    /\ UNCHANGED <<tplVars, ovVars, entered, lbVars, spliceVars, jobVars, running, restart_count, last_restart, monitor_thread, clock, hcVars>>

\* Lines 157-161: the log line reads self.process.pid inside the try block;
\* with the handle cleared by another thread the except branch returns False.
StartLog(t) ==
    IF process # None
    THEN Leave(t, StartRet(t, TRUE), "True") /\ Took(t, "none")
    ELSE Leave(t, StartRet(t, FALSE), "False") /\ Took(t, "none")

\* Lines 148-153 (and 157-158 when no monitor is to be started): the
\* bookkeeping of a launch and the test for a monitor.
StartRecord(t) ==
    /\ pc[t] = "start_record"
    /\ running' = TRUE
    /\ restart_count' = restart_count + 1
    /\ last_restart' = cur[t]
    /\ cur' = [cur EXCEPT ![t] = 0]
    /\ IF autorestart /\ ~is_alive(monitor_thread)
         THEN /\ Goto(t, "start_monitor")
              /\ UNCHANGED <<op, ret, sent, branch>>
         ELSE StartLog(t)
    /\ UNCHANGED <<tplVars, ovVars, entered, lbVars, spliceVars, jobVars, process, monitor_thread, osVars, clock, hcVars>>

\* Lines 154-158: a new thread runs _monitor.
StartMonitor(t) ==
    /\ pc[t] = "start_monitor"
    /\ \E m \in Monitors :
          /\ pc[m] = "dead"
          /\ m = (IF pc["m1"] = "dead" THEN "m1" ELSE "m2")
          /\ monitor_thread' = m
          /\ pc' = [pc EXCEPT ![m] = "mon_loop",
                              ![t] = StartRet(t, process # None)]
    /\ ret' = [ret EXCEPT ![t] = IF t # "api" THEN "None"
                                 ELSE IF process # None THEN "True" ELSE "False"]
    /\ Took(t, "none")
    /\ op' = [op EXCEPT ![t] = IF pc'[t] \in {"idle", "hc_gate"} THEN "none" ELSE @]
    /\ UNCHANGED <<tplVars, ovVars, entered, lbVars, spliceVars, jobVars, process, running, restart_count, last_restart,
                   osVars, clock, hcVars, cur, sent>>

(* ------------------------- ComfyUIManager.stop ------------------------ *)
\* Lines 178-179.
Clear ==
    /\ running' = FALSE
    /\ process' = None

\* stop() without the test of line 165: os.kill(self.process.pid, ...) on a
\* cleared handle raises AttributeError.
StopCheck_NoGuard(t) ==
    /\ pc[t] = "stop_check"
    /\ IF process # None
         THEN /\ sent' = [sent EXCEPT ![t] = {process}]
              /\ Goto(t, "stop_wait")
              /\ Took(t, "none")
              /\ UNCHANGED <<process, running, op, ret>>
         ELSE /\ Leave(t, RaiseRet(t), "raised")
              /\ Took(t, "stop: no handle")
              /\ UNCHANGED <<process, running>>
    /\ UNCHANGED <<tplVars, ovVars, entered, lbVars, spliceVars, jobVars, restart_count, last_restart, monitor_thread, osVars, clock, hcVars, cur>>

\* Lines 165-168 (and 178-179 when there is nothing to stop): SIGTERM to a
\* child that is alive, and the start of the wait for it.
StopCheck(t) ==
    /\ pc[t] = "stop_check"
    /\ IF Alive
         THEN /\ sent' = [sent EXCEPT ![t] = {process}]
              /\ Goto(t, "stop_wait")
              /\ Took(t, "none")
              /\ UNCHANGED <<process, running, op, ret>>
         ELSE /\ Clear
              /\ Leave(t, StopRet(t), "None")
              /\ Took(t, IF process = None THEN "stop: no handle" ELSE "none")
    /\ UNCHANGED <<tplVars, ovVars, entered, lbVars, spliceVars, jobVars, restart_count, last_restart, monitor_thread, osVars, clock, hcVars, cur>>

\* Lines 171-179: wait(timeout=10) on the child that was signalled returns
\* once it has exited.  While it is alive TimeoutExpired is raised: the
\* handler reads self.process again (AttributeError when another thread has
\* cleared it, which stop() does not catch), sends SIGKILL to the process of
\* that handle, which no child survives, and waits for it.
StopWait(t) ==
    /\ pc[t] = "stop_wait"
    /\ IF sent[t] \cap live = {}
         THEN /\ Clear
              /\ Leave(t, StopRet(t), "None")
              /\ UNCHANGED live
         ELSE IF process = None
         THEN /\ Leave(t, RaiseRet(t), "raised")
              /\ UNCHANGED <<process, running, live>>
         ELSE /\ live' = live \ {process}
              /\ Clear
              /\ Leave(t, StopRet(t), "None")
    /\ UNCHANGED <<tplVars, ovVars, entered, lbVars, spliceVars, jobVars, restart_count, last_restart, monitor_thread, nextPid, clock, hcVars, cur, branch>>

(* ------------------------- ComfyUIManager.kill ------------------------ *)
\* kill() clearing the failure counter of the health checker as well.
Kill_ClearsCounter(t) ==
    /\ pc[t] = "kill_check"
    /\ live' = IF Alive THEN live \ {process} ELSE live
    /\ Took(t, IF process = None THEN "kill: no handle" ELSE "none")
    /\ Clear
    /\ Leave(t, "idle", "None")
    /\ consecutive_failures' = 0
    /\ UNCHANGED <<tplVars, ovVars, entered, lbVars, spliceVars, jobVars, restart_count, last_restart, monitor_thread, nextPid, clock,
                   last_health_check, streak, counted, cur>>

\* Lines 183-191: SIGKILL to a child that is alive, the wait, the clearing.
Kill(t) ==
    /\ pc[t] = "kill_check"
    /\ live' = IF Alive THEN live \ {process} ELSE live
    /\ Took(t, IF process = None THEN "kill: no handle" ELSE "none")
    /\ Clear
    /\ Leave(t, "idle", "None")
    /\ UNCHANGED <<tplVars, ovVars, entered, lbVars, spliceVars, jobVars, restart_count, last_restart, monitor_thread, nextPid, clock, hcVars, cur>>

(* ------------------------ ComfyUIManager._monitor --------------------- *)
\* _monitor without the crash test of lines 220-223.
MonLoop_NoCrashTest(m) ==
    /\ pc[m] = "mon_loop"
    /\ Goto(m, IF ~running THEN "mon_exit" ELSE "mon_loop")
    /\ UNCHANGED <<tplVars, ovVars, entered, lbVars, spliceVars, jobVars, mgrVars, osVars, clock, hcVars, op, cur, ret, sent, branch>>

\* Lines 219-222 and 226: the loop test, the crash test, and the call of
\* start() after the backoff.
MonLoop(m) ==
    /\ pc[m] = "mon_loop"
    /\ Goto(m, IF ~running THEN "mon_exit"
               ELSE IF process # None /\ process \notin live THEN "start_check"
               ELSE "mon_loop")
    /\ UNCHANGED <<tplVars, ovVars, entered, lbVars, spliceVars, jobVars, mgrVars, osVars, clock, hcVars, op, cur, ret, sent, branch>>

\* The thread function returns: is_alive() turns false.
MonExit(m) ==
    /\ pc[m] = "mon_exit"
    /\ Goto(m, "dead")
    /\ UNCHANGED <<tplVars, ovVars, entered, lbVars, spliceVars, jobVars, mgrVars, osVars, clock, hcVars, op, cur, ret, sent, branch>>

(* ---------------------- HealthChecker.check_health -------------------- *)
\* check_health() without the gate of lines 44-45.
HcGate_NoDebounce(t) ==
    /\ pc[t] = "hc_gate"
    /\ Goto(t, "hc_stamp")
    /\ cur' = [cur EXCEPT ![t] = now]
    /\ UNCHANGED <<tplVars, ovVars, entered, lbVars, spliceVars, jobVars, mgrVars, osVars, clock, hcVars, op, ret, sent, branch>>

\* Lines 41-45: the debounce gate.
HcGate(t) ==
    /\ pc[t] = "hc_gate"
    /\ IF now - last_health_check < health_check_interval
         THEN /\ Leave(t, HcRet(t, "ok", consecutive_failures), "ok")
              /\ UNCHANGED cur
         ELSE /\ Goto(t, "hc_stamp")
              /\ cur' = [cur EXCEPT ![t] = now]
              /\ UNCHANGED <<op, ret, sent>>
    /\ UNCHANGED <<tplVars, ovVars, entered, lbVars, spliceVars, jobVars, mgrVars, osVars, clock, hcVars, branch>>

\* A number n of calls in a row that judged a failure, after one more call
\* has judged status s; it is counted up to max_failures.
Judged(n, s) ==
    IF s # "error" THEN 0
    ELSE IF n < max_failures THEN n + 1 ELSE n

\* Lines 47-56: the time stamp and the supervisor query.
HcStamp(t) ==
    /\ pc[t] = "hc_stamp"
    /\ last_health_check' = cur[t]
    /\ cur' = [cur EXCEPT ![t] = 0]
    /\ IF ~is_running
         THEN /\ consecutive_failures < MaxCount
              /\ consecutive_failures' = consecutive_failures + 1
              /\ streak' = Judged(streak, "error")
              /\ counted' = Judged(counted, "error")
              /\ Leave(t, HcRet(t, "error", consecutive_failures'), "error")
         ELSE /\ Goto(t, "hc_probe")
              /\ UNCHANGED <<consecutive_failures, streak, counted, op, ret, sent>>
    /\ UNCHANGED <<tplVars, ovVars, entered, lbVars, spliceVars, jobVars, mgrVars, osVars, clock, branch>>

\* What requests.get(...) can end with: a 200 response, another status, a
\* refused connection, any other exception.
ProbeAnswers == {"200", "non200", "refused", "exception"}

\* The status check_health() returns for an answer of the probe.
Verdict(answer) ==
    IF answer = "200" THEN "healthy"
    ELSE IF answer = "refused" THEN "starting"
    ELSE "error"

\* check_health() without the test of line 71: a refused connection is
\* counted like every other exception.
HcProbe_CountsRefused(t, answer) ==
    /\ pc[t] = "hc_probe"
    /\ answer # "200" => consecutive_failures < MaxCount
    /\ consecutive_failures' =
         IF answer = "200" THEN 0 ELSE consecutive_failures + 1
    /\ streak' = Judged(streak, IF answer = "200" THEN "healthy" ELSE "error")
    /\ counted' = Judged(counted, IF answer = "200" THEN "healthy" ELSE "error")
    /\ Leave(t, HcRet(t, IF answer = "200" THEN "healthy" ELSE "error",
                      consecutive_failures'),
             IF answer = "200" THEN "healthy" ELSE "error")
    /\ Took(t, answer)
    /\ UNCHANGED <<tplVars, ovVars, entered, lbVars, spliceVars, jobVars, mgrVars, osVars, clock, last_health_check, cur>>

\* check_health() without the clearing of the counter on a 200 response
\* (line 86).
HcProbe_NoClear(t, answer) ==
    /\ pc[t] = "hc_probe"
    /\ Verdict(answer) = "error" => consecutive_failures < MaxCount
    /\ consecutive_failures' =
         IF Verdict(answer) = "error" THEN consecutive_failures + 1
         ELSE consecutive_failures
    /\ streak' = Judged(streak, Verdict(answer))
    /\ counted' = Judged(counted, Verdict(answer))
    /\ Leave(t, HcRet(t, Verdict(answer), consecutive_failures'), Verdict(answer))
    /\ Took(t, answer)
    /\ UNCHANGED <<tplVars, ovVars, entered, lbVars, spliceVars, jobVars, mgrVars, osVars, clock, last_health_check, cur>>

\* Lines 59-92: the HTTP probe and the verdict.
HcProbe(t, answer) ==
    /\ pc[t] = "hc_probe"
    /\ Verdict(answer) = "error" => consecutive_failures < MaxCount
    /\ consecutive_failures' =
         IF Verdict(answer) = "healthy" THEN 0
         ELSE IF Verdict(answer) = "starting" THEN consecutive_failures
         ELSE consecutive_failures + 1
    /\ streak' = Judged(streak, Verdict(answer))
    /\ counted' = Judged(counted, Verdict(answer))
    /\ Leave(t, HcRet(t, Verdict(answer), consecutive_failures'), Verdict(answer))
    /\ Took(t, answer)
    /\ UNCHANGED <<tplVars, ovVars, entered, lbVars, spliceVars, jobVars, mgrVars, osVars, clock, last_health_check, cur>>

(* --------------------------- health_monitor_loop ---------------------- *)
\* Lines 285-287: the counter is cleared after a successful restart.
HlReset ==
    /\ pc["hl"] = "hl_reset"
    /\ consecutive_failures' = 0
    /\ counted' = 0
    /\ Leave("hl", "hc_gate", "None")
    /\ UNCHANGED <<tplVars, ovVars, entered, lbVars, spliceVars, jobVars, mgrVars, osVars, clock, last_health_check, streak, cur, branch>>

(* ------------------------- the control surface ------------------------ *)
\* Lines 257-264: startup_event calls manager.start().
Startup ==
    /\ pc["api"] = "startup"
    /\ Goto("api", "start_check")
    /\ op' = [op EXCEPT !["api"] = "startup"]
    /\ UNCHANGED <<tplVars, ovVars, entered, lbVars, spliceVars, jobVars, mgrVars, osVars, clock, hcVars, cur, ret, sent, branch>>

\* Lines 266-272: after a successful start the health thread is started.
StartupHealth ==
    /\ pc["api"] = "startup_health"
    /\ pc' = [pc EXCEPT !["api"] = "idle", !["hl"] = "hc_gate"]
    /\ op' = [op EXCEPT !["api"] = "none"]
    /\ UNCHANGED <<tplVars, ovVars, entered, lbVars, spliceVars, jobVars, mgrVars, osVars, clock, hcVars, cur, ret, sent, branch>>

FirstStep(o) ==
    CASE o = "restart" -> "stop_check"
      [] o = "stop"    -> "stop_check"
      [] o = "kill"    -> "kill_check"
      [] o = "health"  -> "hc_gate"

\* POST /restart, POST /stop, POST /kill, GET /health (lines 301-353).
ApiCall(o) ==
    /\ pc["api"] = "idle"
    /\ Goto("api", FirstStep(o))
    /\ op' = [op EXCEPT !["api"] = o]
    /\ ret' = [ret EXCEPT !["api"] = "None"]
    /\ branch' = "none"
    /\ UNCHANGED <<tplVars, ovVars, entered, lbVars, spliceVars, jobVars, mgrVars, osVars, clock, hcVars, cur, sent>>

\* Lines 331-335 and 193-196: POST /restart enters manager.restart(), which
\* begins with stop().
restart_comfyui ==
    /\ pc["api"] = "idle"
    /\ Goto("api", "stop_check")
    /\ op' = [op EXCEPT !["api"] = "restart"]
    /\ ret' = [ret EXCEPT !["api"] = "None"]
    /\ branch' = "none"
    /\ entered' = [count |-> restart_count, pid |-> process, spawned |-> nextPid]
    /\ UNCHANGED <<tplVars, ovVars, lbVars, spliceVars, jobVars, mgrVars, osVars, clock, hcVars, cur, sent>>

(* --------------------------- the environment -------------------------- *)
\* A child process exits: a crash, or its answer to SIGTERM.
ChildExit(p) ==
    /\ p \in live
    /\ live' = live \ {p}
    /\ UNCHANGED <<tplVars, ovVars, entered, lbVars, spliceVars, jobVars, mgrVars, nextPid, clock, hcVars, thrVars>>

\* The clock advances.
Tick ==
    /\ clock < MaxTicks
    /\ clock' = clock + 1
    /\ UNCHANGED <<tplVars, ovVars, entered, lbVars, spliceVars, jobVars, mgrVars, osVars, hcVars, thrVars>>

(* ------------------------------ the engine ---------------------------- *)
\* The image references a history record can list: filename, subfolder, type.
Refs ==
    { [filename |-> "a.png", subfolder |-> "", type |-> "output"],
      [filename |-> "b.png", subfolder |-> "sub", type |-> "temp"] }

\* The image references of a history record, over its output nodes in the
\* order of the record.
ImageListsTo(k) == UNION { [1..n -> Refs] : n \in 0..k }

ImageLists == ImageListsTo(MaxImages)

\* An item of status.messages: a text, or a structured item (a list).
Text(s) == [str |-> TRUE, text |-> s]

Structured == [str |-> FALSE, text |-> "execution_error"]

MessageLists == { <<>>, <<Text("m1")>>, <<Text("m1"), Text("m2")>>, <<Structured>> }

\* What GET /history/{prompt_id} can end with: an exception, a status other
\* than 200, a 200 answer without the prompt, and a 200 answer with an entry
\* for the prompt: one that is not finished (no status_str, no outputs), one
\* with the success marker, one with the error marker and the outputs made
\* before the error, one with the error marker and any messages.
Histories(k) ==
    { [NoHistory EXCEPT !.http = h] : h \in {"200", "non200", "exception"} }
    \cup { [http |-> "200", found |-> TRUE, marker |-> "none", messages |-> <<>>,
            images |-> <<>>] }
    \cup { [http |-> "200", found |-> TRUE, marker |-> "success", messages |-> <<>>,
            images |-> i] : i \in ImageListsTo(k) }
    \cup { [http |-> "200", found |-> TRUE, marker |-> "error",
            messages |-> <<Text("m1")>>, images |-> i] : i \in ImageListsTo(k) }
    \cup { [http |-> "200", found |-> TRUE, marker |-> "error", messages |-> ms,
            images |-> <<>>] : ms \in MessageLists }

HistoryAnswers == Histories(MaxImages)

\* The answers to the GET /view requests for the images imgs, image by image.
FetchAnswers(imgs) == [1..Len(imgs) -> {"200", "non200", "exception"}]

\* The bytes GET /view serves for a reference: another content for every
\* filename, subfolder and type.
Served(r) ==
    (IF r.filename = "a.png" THEN <<137>> ELSE <<255, 216>>)
    \o (IF r.subfolder = "" THEN <<>> ELSE <<1>>)
    \o (IF r.type = "output" THEN <<>> ELSE <<0>>)

\* base64.b64encode: three bytes make four digits of six bits; a last group
\* of one or two bytes is filled with zero bits and "=" signs (written 64).
RECURSIVE b64encode(_)
b64encode(b) ==
    IF b = <<>> THEN <<>>
    ELSE LET n  == Len(b)
             b2 == IF n >= 2 THEN b[2] ELSE 0
             b3 == IF n >= 3 THEN b[3] ELSE 0
             w  == b[1] * 65536 + b2 * 256 + b3
         IN  << w \div 262144,
                (w \div 4096) % 64,
                IF n >= 2 THEN (w \div 64) % 64 ELSE 64,
                IF n >= 3 THEN w % 64 ELSE 64 >>
             \o b64encode(IF n > 3 THEN SubSeq(b, 4, n) ELSE <<>>)

\* "; ".join(messages) of texts, as the list of its parts.
RECURSIVE join(_, _)
join(sep, ms) ==
    IF ms = <<>> THEN <<>>
    ELSE IF Len(ms) = 1 THEN <<ms[1].text>>
    ELSE <<ms[1].text, sep>> \o join(sep, Tail(ms))

(* --------------------------- a job arrives ---------------------------- *)
\* An entry point is called with a job; the worker objects outlive the job.
Receive(e, p, n) ==
    /\ jpc \in {"idle", "done", "raised"}
    /\ entry' = e
    /\ payload' = p
    /\ uploads' = n
    /\ jpc' = IF e \in Workers THEN "initialize" ELSE "validate"
    /\ calls' = {}
    /\ polls' = 0
    /\ retries' = 0
    /\ late' = FALSE
    /\ seen' = NoHistory
    /\ fetches' = <<>>
    /\ outcome' = NoOutcome
    /\ prompt_id' = "unset"
    /\ UNCHANGED <<tplVars, ovVars, lbVars, spliceVars, supVars, initialized>>

\* The entry point returns a dict: s is its "status" value (for the workers
\* its "success" value, for handler "error" when the dict has that key), m
\* its message, r what the message quotes from the engine, k its images.
Report(s, m, r, k) ==
    /\ jpc' = "done"
    /\ outcome' = [status |-> s, message |-> m, reason |-> r, images |-> k]

Return(s, m, k) == Report(s, m, <<>>, k)

\* An exception leaves the entry point: nothing is returned.
Raise ==
    /\ jpc' = "raised"
    /\ UNCHANGED outcome

\* One more HTTP request of kind k goes to the engine.
Call(k) == calls' = calls \cup {k}

\* The reference an entry point asks GET /view for: the workers send the
\* filename with type=output and no subfolder (src/rp_handler.py line 224).
ViewRef(e, img) ==
    IF e \in Workers
    THEN [filename |-> img.filename, subfolder |-> "", type |-> "output"]
    ELSE img

\* The entry of the result for an image that was served.
Artifact(e, img) ==
    [filename |-> img.filename,
     scheme   |-> IF e = "process_workflow" THEN "data:image/png;base64," ELSE "",
     data     |-> b64encode(Served(ViewRef(e, img)))]

\* An answer to GET /view that leaves the loop over the images as an
\* exception: handler's get_image raises for every failure
\* (raise_for_status), the others only when the request itself fails.
Raises(e, a) == a = "exception" \/ (e = "handler" /\ a = "non200")

\* The loop over the images of a history record with the answers ans to its
\* GET /view requests: the requests made, the artifacts collected, and
\* whether an exception ended it.  handler skips the images of type temp;
\* process_workflow and the workers leave out an image answered with another
\* status than 200.
RECURSIVE Collect(_, _, _)
Collect(e, imgs, ans) ==
    IF imgs = <<>> THEN [raised |-> FALSE, items |-> <<>>, made |-> <<>>]
    ELSE IF e = "handler" /\ Head(imgs).type = "temp"
    THEN LET r == Collect(e, Tail(imgs), Tail(ans))
         IN  [r EXCEPT !.made = <<"skipped">> \o @]
    ELSE IF Raises(e, Head(ans))
    THEN [raised |-> TRUE, items |-> <<>>, made |-> <<Head(ans)>>]
    ELSE LET r == Collect(e, Tail(imgs), Tail(ans))
         IN  [raised |-> r.raised,
              items  |-> (IF Head(ans) = "200" THEN <<Artifact(e, Head(imgs))>>
                          ELSE <<>>) \o r.items,
              made   |-> <<Head(ans)>> \o r.made]

\* A GET /view request was sent in the loop.
Viewed(c) == \E i \in 1..Len(c.made) : c.made[i] # "skipped"

(* ------------------ process_workflow (src/app/handler.py) ------------- *)
\* process_workflow without the supervisor query of lines 381-383.
process_workflow_NoRunningTest ==
    /\ entry = "process_workflow" /\ jpc = "validate"
    /\ IF payload \in {"missing", "empty"}
         THEN Return("error", "No workflow provided", <<>>)
         ELSE jpc' = "preflight" /\ UNCHANGED outcome
    /\ UNCHANGED <<tplVars, ovVars, lbVars, spliceVars, supVars, prompt_id, entry, payload, uploads, initialized, calls, polls, retries,
                   late, seen, fetches>>

\* Lines 374-387: the payload test and the supervisor query.
process_workflow ==
    /\ entry = "process_workflow" /\ jpc = "validate"
    /\ IF payload \in {"missing", "empty"}
         THEN Return("error", "No workflow provided", <<>>)
         ELSE IF ~is_running
         THEN Return("error", "ComfyUI is not running", <<>>)
         ELSE jpc' = "preflight" /\ UNCHANGED outcome
    /\ UNCHANGED <<tplVars, ovVars, lbVars, spliceVars, supVars, prompt_id, entry, payload, uploads, initialized, calls, polls, retries,
                   late, seen, fetches>>

\* Lines 407-412: GET / before anything is sent.
Preflight(answer) ==
    /\ entry = "process_workflow" /\ jpc = "preflight"
    /\ Call("probe")
    /\ IF answer = "200"
         THEN jpc' = (IF uploads > 0 THEN "upload" ELSE "submit") /\ UNCHANGED outcome
         ELSE IF answer = "non200"
         THEN Return("error", "ComfyUI is not responding", <<>>)
         ELSE Return("error", "ComfyUI is not reachable", <<>>)
    /\ UNCHANGED <<tplVars, ovVars, lbVars, spliceVars, supVars, prompt_id, entry, payload, uploads, initialized, polls, retries, late,
                   seen, fetches>>

\* Lines 415-443: POST /upload/image for every image; a failure is logged.
Upload ==
    /\ entry = "process_workflow" /\ jpc = "upload"
    /\ Call("upload")
    /\ jpc' = "submit"
    /\ UNCHANGED <<tplVars, ovVars, lbVars, spliceVars, supVars, prompt_id, entry, payload, uploads, initialized, polls, retries, late,
                   seen, fetches, outcome>>

\* result.get("prompt_id") of the answer to POST /prompt: the identifier of a
\* 200 answer that has one, None of one that has none; no assignment when
\* the request fails.
Identifier(answer) ==
    IF answer = "200 id" THEN "id"
    ELSE IF answer = "200 no id" THEN "None"
    ELSE prompt_id

\* Lines 446-462: POST /prompt.
Submit(answer) ==
    /\ entry = "process_workflow" /\ jpc = "submit"
    /\ Call("submit")
    /\ prompt_id' = Identifier(answer)
    /\ IF answer = "200 id"
         THEN jpc' = "poll" /\ UNCHANGED outcome
         ELSE IF answer = "200 no id"
         THEN Return("error", "No prompt_id received from ComfyUI", <<>>)
         ELSE IF answer = "non200"
         THEN Return("error", "Failed to submit workflow", <<>>)
         ELSE Return("error", "Processing error", <<>>)
    /\ UNCHANGED <<tplVars, ovVars, lbVars, spliceVars, supVars, entry, payload, uploads, initialized, polls, retries, late,
                   seen, fetches>>

\* Line 468: the loop test.  A round of the loop takes the 2 s of line 523
\* at least, so that max_wait is over after a number of rounds.
Deadline == polls >= MaxPolls

\* Lines 516-518: the message of a prompt with the error marker.
Reason(ms) == IF ms = <<>> THEN <<"Unknown error">> ELSE join("; ", ms)

\* str.join raises TypeError on an item that is not a text.
Joins(ms) == \A i \in 1..Len(ms) : ms[i].str

\* Lines 468-525: one round of the poll loop, or its end at the deadline
\* (max_wait).  The images of a prompt with the success marker are fetched
\* with GET /view, and one answered with another status than 200 is left
\* out.  An exception in the round (from GET /history, from GET /view, from
\* the join of line 517) is logged at line 521, and the loop goes on; what a
\* round given up at a GET /view request had read is dropped with it.
Poll(h, ans) ==
    /\ entry = "process_workflow" /\ jpc = "poll"
    /\ IF Deadline
         THEN /\ Return("error", "Workflow timed out after 20 minutes", <<>>)
              /\ late' = TRUE
              /\ UNCHANGED <<calls, polls, seen, fetches>>
         ELSE /\ late' = late
              /\ LET c == Collect(entry, h.images, ans)
                     retrieving == h.found /\ h.marker = "success"
                 IN  /\ calls' = calls \cup {"poll"}
                                   \cup (IF retrieving /\ Viewed(c) THEN {"view"} ELSE {})
                     /\ seen' = IF retrieving /\ c.raised THEN NoHistory ELSE h
                     /\ fetches' = IF retrieving /\ ~c.raised THEN c.made ELSE <<>>
                     /\ IF retrieving /\ ~c.raised
                          THEN /\ Return("success", "Generated images", c.items)
                               /\ UNCHANGED polls
                          ELSE IF h.found /\ h.marker = "error" /\ Joins(h.messages)
                          THEN /\ Report("error", "Workflow failed", Reason(h.messages), <<>>)
                               /\ UNCHANGED polls
                          ELSE /\ polls' = polls + 1
                               /\ UNCHANGED <<jpc, outcome>>
    /\ UNCHANGED <<tplVars, ovVars, lbVars, spliceVars, supVars, prompt_id, entry, payload, uploads, initialized, retries>>

(* ------------- _inject_input_data of the two workers ------------------ *)
\* A node of the "nodes" list of a workflow of src/rp_handler.py: its "type",
\* whether it has the key "widgets_values", and that list.  A node that is
\* not a mapping has no .get.
NodeTypes == {"CLIPTextEncode", "LoadImage", "KSampler", "Note"}

NotAMapping == [type |-> "not a mapping", has_widgets |-> FALSE, widgets_values |-> <<>>]

GraphNodes ==
    { [type |-> t, has_widgets |-> FALSE, widgets_values |-> <<>>] : t \in NodeTypes }
    \cup { [type |-> t, has_widgets |-> TRUE, widgets_values |-> w] :
              t \in NodeTypes, w \in {<<>>, <<"orig">>} }
    \cup { NotAMapping }

\* The inputs of a job of src/rp_handler.py: the keys of its "input" mapping
\* and whether its image_base64 decodes and can be written to the input
\* directory.
GraphInputs ==
    { i \in [mapping : {TRUE}, keys : SUBSET {"text", "image_base64", "seed"},
             image_ok : BOOLEAN] : i.image_ok \/ "image_base64" \in i.keys }

\* The values of a workflow of src/dev/rp_handler.py, in the order of its
\* keys: None, a node without "inputs", a node whose "inputs" is None, and a
\* node whose "inputs" is a mapping with some of the keys the splicing looks
\* for ("absent" for a key it does not have).
InputKeys == {"text", "width", "height", "seed"}

NoInputs == [k \in InputKeys |-> "absent"]

FlatNodes ==
    { [shape |-> s, inputs |-> NoInputs] : s \in {"None", "no inputs", "inputs None"} }
    \cup { [shape |-> "dict",
            inputs |-> [k \in InputKeys |-> IF k \in S THEN "orig" ELSE "absent"]] :
              S \in SUBSET InputKeys }

\* The "input" of a job of src/dev/rp_handler.py: a mapping with some of the
\* keys prompt, w, h and seed, or a value without .get that is not empty.
FlatInputs ==
    { [mapping |-> TRUE, keys |-> k, image_ok |-> TRUE] :
         k \in SUBSET {"prompt", "w", "h", "seed"} }
    \cup { [mapping |-> FALSE, keys |-> {}, image_ok |-> TRUE] }

\* if input_data: a mapping without keys is false.
Truthy(inp) == ~inp.mapping \/ inp.keys # {}

\* src/rp_handler.py lines 113-139, from the node at i on: the nodes are
\* changed in place one after another; node.get raises for a node that is
\* not a mapping, widgets_values[0] = ... for an empty list, b64decode and
\* open for an image that cannot be decoded or written.
RECURSIVE InjectNodes(_, _, _)
InjectNodes(nodes, i, inp) ==
    IF i > Len(nodes) THEN [workflow |-> nodes, raised |-> FALSE]
    ELSE LET node == nodes[i]
             Fail == [workflow |-> nodes, raised |-> TRUE]
             Put(v) ==
                 IF ~node.has_widgets THEN InjectNodes(nodes, i + 1, inp)
                 ELSE IF node.widgets_values = <<>> THEN Fail
                 ELSE InjectNodes([nodes EXCEPT ![i].widgets_values = <<v>> \o Tail(@)],
                                  i + 1, inp)
         IN  IF node.type = "not a mapping" THEN Fail
             ELSE IF node.type = "CLIPTextEncode" /\ "text" \in inp.keys
             THEN Put("input text")
             ELSE IF node.type = "LoadImage" /\ "image_base64" \in inp.keys
             THEN (IF inp.image_ok THEN Put("temp_input.png") ELSE Fail)
             ELSE IF node.type = "KSampler" /\ "seed" \in inp.keys
             THEN Put("input seed")
             ELSE InjectNodes(nodes, i + 1, inp)

\* src/dev/rp_handler.py lines 120-122 and 147: the key of the job's input
\* from which the field k of a node is written.
InputKeyOf(k) ==
    CASE k = "text"   -> "prompt"
      [] k = "width"  -> "w"
      [] k = "height" -> "h"
      [] k = "seed"   -> "seed"

\* src/dev/rp_handler.py lines 129-147: the "inputs" of a node after the
\* splicing; width and height have the defaults of lines 121-122.
Spliced(inputs, inp) ==
    [k \in InputKeys |->
        IF inputs[k] = "absent" THEN "absent"
        ELSE IF k = "text"
        THEN (IF "prompt" \in inp.keys THEN "input prompt" ELSE inputs[k])
        ELSE IF k = "width"
        THEN (IF "w" \in inp.keys THEN "input w" ELSE "1024")
        ELSE IF k = "height"
        THEN (IF "h" \in inp.keys THEN "input h" ELSE "1024")
        ELSE (IF "seed" \in inp.keys THEN "input seed" ELSE inputs[k])]

\* src/dev/rp_handler.py lines 127-147, from the value at i on: 'inputs' in
\* node raises for None, and 'text' in inputs for an "inputs" that is None.
RECURSIVE InjectItems(_, _, _)
InjectItems(nodes, i, inp) ==
    IF i > Len(nodes) THEN [workflow |-> nodes, raised |-> FALSE]
    ELSE IF nodes[i].shape \in {"None", "inputs None"}
    THEN [workflow |-> nodes, raised |-> TRUE]
    ELSE IF nodes[i].shape = "no inputs"
    THEN InjectItems(nodes, i + 1, inp)
    ELSE InjectItems([nodes EXCEPT ![i].inputs = Spliced(@, inp)], i + 1, inp)

\* _inject_input_data of the worker e: what it returns, which is the object
\* it was given, and whether its except branch was taken (src/rp_handler.py
\* lines 143-146, src/dev/rp_handler.py lines 152-155).  In the dev worker
\* input_data.get (line 120) raises before any node is looked at.
Injected(e, nodes, inp) ==
    IF e = "handler_async" THEN InjectNodes(nodes, 1, inp)
    ELSE IF ~inp.mapping THEN [workflow |-> nodes, raised |-> TRUE]
    ELSE InjectItems(nodes, 1, inp)

(* -------- handler_async (src/rp_handler.py), process_job (dev) -------- *)
\* src/rp_handler.py lines 270-271 with 37-67, src/dev/rp_handler.py lines
\* 280-281 with 37-75: a worker object not yet initialised probes
\* GET /system_stats, once (handler_async) or until max_retries (process_job).
initialize(answer) ==
    /\ entry \in Workers /\ jpc = "initialize"
    /\ IF initialized[entry]
         THEN /\ jpc' = "validate"
              /\ UNCHANGED <<initialized, calls, retries, outcome>>
         ELSE /\ Call("probe")
              /\ IF answer = "200"
                   THEN /\ initialized' = [initialized EXCEPT ![entry] = TRUE]
                        /\ jpc' = "validate"
                        /\ UNCHANGED <<retries, outcome>>
                   ELSE IF entry = "process_job" /\ retries + 1 < MaxRetries
                   THEN /\ retries' = retries + 1
                        /\ UNCHANGED <<initialized, jpc, outcome>>
                   ELSE /\ Return("False", "health check failed", <<>>)
                        /\ UNCHANGED <<initialized, retries>>
    /\ UNCHANGED <<tplVars, ovVars, lbVars, spliceVars, supVars, prompt_id, entry, payload, uploads, polls, late, seen, fetches>>

\* _validate_workflow: src/rp_handler.py lines 102-105 asks for the keys
\* "nodes" and "links", src/dev/rp_handler.py lines 110-113 for a dict that is
\* not empty.
validate_workflow(e, p) ==
    IF e = "handler_async" THEN p = "graph" ELSE p \in {"graph", "flat"}

\* handler_async handing the workflow on without _validate_workflow.
handler_async_NoValidation ==
    /\ entry \in Workers /\ jpc = "validate"
    /\ IF payload = "not a mapping"
         THEN Return("False", "object has no attribute 'get'", <<>>)
         ELSE IF payload \in {"missing", "empty", "no input"}
         THEN Return("False", "No workflow data provided", <<>>)
         ELSE jpc' = "inject" /\ UNCHANGED outcome
    /\ UNCHANGED <<tplVars, ovVars, lbVars, spliceVars, supVars, prompt_id, entry, payload, uploads, initialized, calls, polls, retries,
                   late, seen, fetches>>

\* Lines 273-278 and 82-83 of src/rp_handler.py (283-288 and 90-91 of the
\* dev worker): the payload tests, made after initialize().  The argument is
\* read with .get("workflow"): a job without "input" has no "workflow"
\* either, and an argument without .get raises AttributeError, which the
\* except clause of line 288 turns into a result.
handler_async ==
    /\ entry \in Workers /\ jpc = "validate"
    /\ IF payload = "not a mapping"
         THEN Return("False", "object has no attribute 'get'", <<>>)
         ELSE IF payload \in {"missing", "empty", "no input"}
         THEN Return("False", "No workflow data provided", <<>>)
         ELSE IF ~validate_workflow(entry, payload)
         THEN Return("False", "Invalid workflow data", <<>>)
         ELSE jpc' = "inject" /\ UNCHANGED outcome
    /\ UNCHANGED <<tplVars, ovVars, lbVars, spliceVars, supVars, prompt_id, entry, payload, uploads, initialized, calls, polls, retries,
                   late, seen, fetches>>

\* Lines 85-87 of src/rp_handler.py (93-95 of the dev worker): the splicing,
\* when the job has an input; workflow_data is what _inject_input_data
\* returns.
inject_input_data ==
    /\ entry \in Workers /\ jpc = "inject"
    /\ IF Truthy(input_data)
         THEN LET r == Injected(entry, workflow, input_data)
              IN  /\ workflow' = r.workflow
                  /\ failed' = r.raised
         ELSE UNCHANGED <<workflow, failed>>
    /\ jpc' = "submit"
    /\ UNCHANGED <<tplVars, ovVars, lbVars, supVars, received, input_data, posted, prompt_id, entry, payload, uploads,
                   initialized, calls, polls, retries, late, seen, fetches, outcome>>

\* Lines 148-171: POST /prompt with the workflow as the "prompt" of its
\* payload; the prompt_id of a 200 answer is taken as it is.
submit_workflow(answer) ==
    /\ entry \in Workers /\ jpc = "submit"
    /\ Call("submit")
    /\ prompt_id' = Identifier(answer)
    /\ posted' = workflow
    /\ IF answer \in {"200 id", "200 no id"}
         THEN jpc' = "wait" /\ UNCHANGED outcome
         ELSE Return("False", "Failed to submit workflow", <<>>)
    /\ UNCHANGED <<tplVars, ovVars, lbVars, supVars, workflow, received, input_data, failed, entry, payload,
                   uploads, initialized, polls, retries, late, seen, fetches>>

\* _wait_for_completion without the deadline test of lines 191-192.
wait_for_completion_NoDeadline(answer) ==
    /\ entry \in Workers /\ jpc = "wait"
    /\ polls <= MaxPolls
    /\ Call("poll")
    /\ IF answer = "not running"
         THEN jpc' = "result" /\ UNCHANGED <<polls, late, outcome>>
         ELSE IF answer = "exception"
         THEN Return("False", "Error waiting for completion", <<>>) /\ UNCHANGED <<polls, late>>
         ELSE /\ polls' = polls + 1
              /\ UNCHANGED <<jpc, late, outcome>>
    /\ UNCHANGED <<tplVars, ovVars, lbVars, spliceVars, supVars, prompt_id, entry, payload, uploads, initialized, retries, seen, fetches>>

\* Lines 173-199: one round of GET /queue and the deadline test (timeout); a
\* round takes the 1 s of line 195 at least.
wait_for_completion(answer) ==
    /\ entry \in Workers /\ jpc = "wait"
    /\ Call("poll")
    /\ IF answer = "not running"
         THEN jpc' = "result" /\ UNCHANGED <<polls, late, outcome>>
         ELSE IF answer = "exception"
         THEN Return("False", "Error waiting for completion", <<>>) /\ UNCHANGED <<polls, late>>
         ELSE IF Deadline
         THEN /\ Return("False", "Workflow timeout after 300 seconds", <<>>)
              /\ late' = TRUE
              /\ UNCHANGED polls
         ELSE /\ polls' = polls + 1
              /\ UNCHANGED <<jpc, late, outcome>>
    /\ UNCHANGED <<tplVars, ovVars, lbVars, spliceVars, supVars, prompt_id, entry, payload, uploads, initialized, retries, seen, fetches>>

\* _get_workflow_result returning, when a GET /view request raises, what it
\* has collected.
get_workflow_result_Partial(h, ans) ==
    /\ entry \in Workers /\ jpc = "result"
    /\ seen' = h
    /\ LET c == Collect(entry, h.images, ans)
       IN  /\ calls' = calls \cup {"history"}
                         \cup (IF h.found /\ Viewed(c) THEN {"view"} ELSE {})
           /\ fetches' = IF h.found THEN c.made ELSE <<>>
           /\ IF h.http = "exception"
                THEN Return("False", "Error getting workflow result", <<>>)
                ELSE IF h.http # "200"
                THEN Return("False", "Failed to get history", <<>>)
                ELSE IF ~h.found
                THEN Return("False", "Prompt not found in history", <<>>)
                ELSE IF c.raised
                THEN Return("False", "Error getting workflow result",
                            <<Artifact(entry, Head(h.images))>>)
                ELSE Return("True", "completed", c.items)
    /\ UNCHANGED <<tplVars, ovVars, lbVars, spliceVars, supVars, prompt_id, entry, payload, uploads, initialized, polls, retries, late>>

\* Lines 201-248: GET /history once the prompt is not in queue_running, and
\* the images of the entry, whatever its status is; without an entry the
\* call raises.
get_workflow_result(h, ans) ==
    /\ entry \in Workers /\ jpc = "result"
    /\ seen' = h
    /\ LET c == Collect(entry, h.images, ans)
       IN  /\ calls' = calls \cup {"history"}
                         \cup (IF h.found /\ Viewed(c) THEN {"view"} ELSE {})
           /\ fetches' = IF h.found THEN c.made ELSE <<>>
           /\ IF h.http = "exception"
                THEN Return("False", "Error getting workflow result", <<>>)
                ELSE IF h.http # "200"
                THEN Return("False", "Failed to get history", <<>>)
                ELSE IF ~h.found
                THEN Return("False", "Prompt not found in history", <<>>)
                ELSE IF c.raised
                THEN Return("False", "Error getting workflow result", <<>>)
                ELSE Return("True", "completed", c.items)
    /\ UNCHANGED <<tplVars, ovVars, lbVars, spliceVars, supVars, prompt_id, entry, payload, uploads, initialized, polls, retries, late>>

(* --------------------- handler (src/app/rp_handler.py) ---------------- *)
\* Lines 71-77 with validate_input (lines 16-29), before the try block of
\* line 80: job["input"] raises KeyError for a job without that key, and
\* job_input.get raises AttributeError for an input that is not a mapping.
handler ==
    /\ entry = "handler" /\ jpc = "validate"
    /\ IF payload = "no input"
         THEN Raise
         ELSE IF payload = "not a mapping"
         THEN Raise
         ELSE IF payload \in {"missing", "empty"}
         THEN Return("error", "Missing 'workflow' parameter", <<>>)
         ELSE jpc' = "submit" /\ UNCHANGED outcome
    /\ UNCHANGED <<tplVars, ovVars, lbVars, spliceVars, supVars, prompt_id, entry, payload, uploads, initialized, calls, polls, retries,
                   late, seen, fetches>>

\* Lines 82-85 with queue_workflow (lines 35-45).
queue_workflow(answer) ==
    /\ entry = "handler" /\ jpc = "submit"
    /\ Call("submit")
    /\ prompt_id' = Identifier(answer)
    /\ IF answer = "200 id"
         THEN jpc' = "poll" /\ UNCHANGED outcome
         ELSE IF answer = "200 no id"
         THEN Return("error", "No prompt_id returned from ComfyUI", <<>>)
         ELSE Return("error", "request failed", <<>>)
    /\ UNCHANGED <<tplVars, ovVars, lbVars, spliceVars, supVars, entry, payload, uploads, initialized, polls, retries, late,
                   seen, fetches>>

\* Lines 88-124: one round of the 60 rounds of get_history, or their end.
\* An entry with the key "outputs" ends the loop, whatever its status is; an
\* image that is not served ends the job; a failed GET /history (lines
\* 52-54) ends it as well.
get_history(h, ans) ==
    /\ entry = "handler" /\ jpc = "poll"
    /\ IF Deadline
         THEN /\ Return("error", "Timeout waiting for workflow to complete", <<>>)
              /\ late' = TRUE
              /\ UNCHANGED <<calls, polls, seen, fetches>>
         ELSE /\ late' = late
              /\ seen' = h
              /\ LET c == Collect(entry, h.images, ans)
                     retrieving == h.found /\ h.marker # "none"
                 IN  /\ calls' = calls \cup {"poll"}
                                   \cup (IF retrieving /\ Viewed(c) THEN {"view"} ELSE {})
                     /\ fetches' = IF retrieving THEN c.made ELSE <<>>
                     /\ IF h.http # "200"
                          THEN /\ Return("error", "request failed", <<>>)
                               /\ UNCHANGED polls
                          ELSE IF retrieving
                          THEN /\ IF c.raised
                                    THEN Return("error", "Failed to fetch image", <<>>)
                                    ELSE Return("completed", "none", c.items)
                               /\ UNCHANGED polls
                          ELSE /\ polls' = polls + 1
                               /\ UNCHANGED <<jpc, outcome>>
    /\ UNCHANGED <<tplVars, ovVars, lbVars, spliceVars, supVars, prompt_id, entry, payload, uploads, initialized, retries>>

(* ----------------- jobs that overlap at one entry point --------------- *)
\* The coroutines of several calls of one entry point (handler_async,
\* process_job or process_workflow) take turns on the event loop; every
\* await is a point where another one goes on.  What they share is the
\* worker object (initialized; its session is replaced by every initialize()
\* and never closed) and the engine.  The engine gives every accepted prompt
\* an identifier of its own, runs one prompt at a time and keeps a history
\* entry for every prompt that has ended.

\* The image the engine writes for the prompt with identifier id.
OutputOf(id) ==
    [filename  |-> IF id = 1 THEN "a.png" ELSE IF id = 2 THEN "b.png" ELSE "c.png",
     subfolder |-> "",
     type      |-> "output"]

\* The answer with status 200 to GET /history/{id}.
HistoryOf(id) ==
    IF id \in Ids /\ engine[id] \in {"success", "error"}
    THEN [http |-> "200", found |-> TRUE, marker |-> engine[id],
          messages |-> IF engine[id] = "error" THEN <<Text("m1")>> ELSE <<>>,
          images |-> IF engine[id] = "success" THEN <<OutputOf(id)>> ELSE <<>>]
    ELSE [NoHistory EXCEPT !.http = "200"]

\* queue_running of the answer to GET /queue has the prompt id.
Running(id) == id \in Ids /\ engine[id] = "running"

Out(s, m, r, k) == [status |-> s, message |-> m, reason |-> r, images |-> k]

\* The job j goes on at l.
At(j, l) == jobs' = [jobs EXCEPT ![j].pc = l]

\* The entry point returns to the caller of job j.
Ends(j, s, m, r, k) ==
    jobs' = [jobs EXCEPT ![j].pc = "done", ![j].outcome = Out(s, m, r, k)]

\* A call of the entry point: a worker whose object is initialised goes on
\* with the workflow (src/rp_handler.py lines 270-271 and 39-40); the test
\* is made before the first await.
Arrive(j) ==
    /\ jobs[j].pc = "idle"
    /\ At(j, IF entry \in Workers /\ initialized[entry] THEN "submit" ELSE "probe")
    /\ UNCHANGED <<tplVars, supVars, lbVars, spliceVars, jobVars, given, issued, engine>>

\* initialize() of a worker (GET /system_stats, src/rp_handler.py lines
\* 37-67, src/dev/rp_handler.py lines 36-75) and the GET / of
\* process_comfyui_workflow (src/app/handler.py lines 407-412).  The dev
\* worker probes again while more of its max_retries attempts are left.
Probe(j, answer, more) ==
    /\ jobs[j].pc = "probe"
    /\ IF entry \in Workers
         THEN IF answer = "200"
              THEN /\ initialized' = [initialized EXCEPT ![entry] = TRUE]
                   /\ At(j, "submit")
              ELSE IF entry = "process_job" /\ more
              THEN UNCHANGED <<jobs, initialized>>
              ELSE /\ Ends(j, "False", "health check failed", <<>>, <<>>)
                   /\ UNCHANGED initialized
         ELSE /\ UNCHANGED initialized
              /\ IF answer = "200" THEN At(j, "submit")
                 ELSE IF answer = "non200"
                 THEN Ends(j, "error", "ComfyUI is not responding", <<>>, <<>>)
                 ELSE Ends(j, "error", "ComfyUI is not reachable", <<>>, <<>>)
    /\ UNCHANGED <<tplVars, supVars, lbVars, spliceVars, given, issued, engine, entry, payload,
                   uploads, jpc, calls, polls, retries, late, seen, fetches, outcome,
                   prompt_id>>

\* POST /prompt storing the identifier in the object the jobs share: every
\* job that waits for a prompt goes on with the identifier of the last one.
Post_SharedId(j, answer) ==
    /\ jobs[j].pc = "submit"
    /\ answer = "200 id"
    /\ issued' = issued + 1
    /\ engine' = [engine EXCEPT ![issued + 1] = "pending"]
    /\ given' = [given EXCEPT ![j] = issued + 1]
    /\ jobs' = [k \in Slots |->
                  IF k = j
                  THEN [jobs[k] EXCEPT !.prompt_id = issued + 1,
                                       !.pc = IF entry \in Workers THEN "wait" ELSE "poll"]
                  ELSE IF jobs[k].pc \in {"wait", "result", "poll"}
                  THEN [jobs[k] EXCEPT !.prompt_id = issued + 1]
                  ELSE jobs[k]]
    /\ UNCHANGED <<tplVars, supVars, lbVars, spliceVars, jobVars>>

\* POST /prompt of job j (src/rp_handler.py lines 148-171, src/app/handler.py
\* lines 445-462): the engine queues the prompt under a new identifier, which
\* the job keeps in a local; a worker takes the identifier as it is.
Post(j, answer) ==
    /\ jobs[j].pc = "submit"
    /\ IF answer = "200 id"
         THEN /\ issued' = issued + 1
              /\ engine' = [engine EXCEPT ![issued + 1] = "pending"]
              /\ given' = [given EXCEPT ![j] = issued + 1]
              /\ jobs' = [jobs EXCEPT ![j].prompt_id = issued + 1,
                                      ![j].pc = IF entry \in Workers THEN "wait"
                                                ELSE "poll"]
         ELSE /\ UNCHANGED <<issued, engine, given>>
              /\ IF answer = "200 no id"
                   THEN IF entry \in Workers
                        THEN At(j, "wait")
                        ELSE Ends(j, "error", "No prompt_id received from ComfyUI",
                                  <<>>, <<>>)
                   ELSE IF entry \in Workers \/ answer = "non200"
                   THEN Ends(j, IF entry \in Workers THEN "False" ELSE "error",
                             "Failed to submit workflow", <<>>, <<>>)
                   ELSE Ends(j, "error", "Processing error", <<>>, <<>>)
    /\ UNCHANGED <<tplVars, supVars, lbVars, spliceVars, jobVars>>

\* One round of _wait_for_completion (src/rp_handler.py lines 173-199): the
\* job asks GET /queue for its own prompt_id, and goes on to the next round
\* unless it is late: more than timeout seconds have passed.
Wait(j, answer, is_late) ==
    /\ entry \in Workers /\ jobs[j].pc = "wait"
    /\ IF answer = "exception"
         THEN Ends(j, "False", "Error waiting for completion", <<>>, <<>>)
         ELSE IF answer = "200" /\ ~Running(jobs[j].prompt_id)
         THEN At(j, "result")
         ELSE IF is_late
         THEN Ends(j, "False", "Workflow timeout after 300 seconds", <<>>, <<>>)
         ELSE UNCHANGED jobs
    /\ UNCHANGED <<tplVars, supVars, lbVars, spliceVars, jobVars, given, issued, engine>>

\* _get_workflow_result (src/rp_handler.py lines 201-248): GET /history for
\* the job's own prompt_id, answered with http, and the GET /view requests
\* for the images of the entry, answered with ans.
Result(j, http, ans) ==
    /\ entry \in Workers /\ jobs[j].pc = "result"
    /\ LET h == IF http = "200" THEN HistoryOf(jobs[j].prompt_id)
                ELSE [NoHistory EXCEPT !.http = http]
           c == Collect(entry, h.images, ans)
       IN  /\ ans \in FetchAnswers(h.images)
           /\ IF h.http = "exception"
                THEN Ends(j, "False", "Error getting workflow result", <<>>, <<>>)
                ELSE IF h.http # "200"
                THEN Ends(j, "False", "Failed to get history", <<>>, <<>>)
                ELSE IF ~h.found
                THEN Ends(j, "False", "Prompt not found in history", <<>>, <<>>)
                ELSE IF c.raised
                THEN Ends(j, "False", "Error getting workflow result", <<>>, <<>>)
                ELSE Ends(j, "True", "completed", <<>>, c.items)
    /\ UNCHANGED <<tplVars, supVars, lbVars, spliceVars, jobVars, given, issued, engine>>

\* One round of the poll loop of process_comfyui_workflow (src/app/handler.py
\* lines 468-525) for the job's own prompt_id, or its end when it is late:
\* max_wait seconds have passed.
Round(j, http, ans, is_late) ==
    /\ entry = "process_workflow" /\ jobs[j].pc = "poll"
    /\ LET h == IF http = "200" THEN HistoryOf(jobs[j].prompt_id)
                ELSE [NoHistory EXCEPT !.http = http]
           c == Collect(entry, h.images, ans)
       IN  /\ ans \in FetchAnswers(h.images)
           /\ IF is_late
                THEN Ends(j, "error", "Workflow timed out after 20 minutes", <<>>, <<>>)
                ELSE IF h.found /\ h.marker = "success" /\ ~c.raised
                THEN Ends(j, "success", "Generated images", <<>>, c.items)
                ELSE IF h.found /\ h.marker = "error" /\ Joins(h.messages)
                THEN Ends(j, "error", "Workflow failed", Reason(h.messages), <<>>)
                ELSE UNCHANGED jobs
    /\ UNCHANGED <<tplVars, supVars, lbVars, spliceVars, jobVars, given, issued, engine>>

\* The engine takes a prompt from its queue when it runs none.
EngineRun(id) ==
    /\ engine[id] = "pending"
    /\ \A i \in Ids : engine[i] # "running"
    /\ engine' = [engine EXCEPT ![id] = "running"]
    /\ UNCHANGED <<tplVars, supVars, lbVars, spliceVars, jobVars, jobs, given, issued>>

\* The prompt the engine runs ends, with the success or the error marker.
EngineEnd(id, m) ==
    /\ engine[id] = "running"
    /\ engine' = [engine EXCEPT ![id] = m]
    /\ UNCHANGED <<tplVars, supVars, lbVars, spliceVars, jobVars, jobs, given, issued>>

(* ------ the template handler and the mock API (src/test-api-dev-local) -- *)
\* The values a width or height field can have: an integer n, a number
\* n + 0.5, a text that reads as the integer n, another text, None, or no
\* field at all.
Dimensions ==
    { [type |-> "int", n |-> k] : k \in {0 - 100, 0, 1, 64, 2048, 2049} }
    \cup { [type |-> "float", n |-> k] : k \in {0, 1, 2048} }
    \cup { [type |-> "numeric str", n |-> k] : k \in {1024, 3000} }
    \cup { [type |-> t, n |-> 0] : t \in {"str", "None", "missing"} }

\* The prompt field: missing, "", " ", a text, or a number.
Prompts == {"missing", "empty", "blank", "text", "number"}

\* The "input" of an event: a mapping with those fields, or None.
Events ==
    { e \in [mapping : BOOLEAN, prompt : Prompts, width : Dimensions, height : Dimensions] :
         e.mapping \/ e = [NoEvent EXCEPT !.mapping = FALSE] }

\* int(v) raises ValueError or TypeError.
IntRaises(v) == v.type \in {"str", "None"}

\* int(v): a number of the form n + 0.5 with n >= 0 is cut to n.
int(v) == v.n

\* ComfyUIHandler.validate_input (src/test-api-dev-local/handler.py lines
\* 89-123): the error message, or "None".
validate_input(d) ==
    IF d.prompt = "missing" THEN "Missing required field: prompt"
    ELSE IF d.width.type = "missing" THEN "Missing required field: width"
    ELSE IF d.height.type = "missing" THEN "Missing required field: height"
    ELSE IF d.prompt # "text" THEN "Prompt must be a non-empty string"
    ELSE IF IntRaises(d.width) \/ IntRaises(d.height)
    THEN "Width and height must be valid integers"
    ELSE IF int(d.width) <= 0 \/ int(d.height) <= 0
    THEN "Width and height must be positive integers"
    ELSE IF int(d.width) > 2048 \/ int(d.height) > 2048
    THEN "Width and height must not exceed 2048 pixels"
    ELSE "None"

\* ComfyUIHandler.handler (lines 125-182): what it returns for an event whose
\* "input" is d.  On an input that is None the test 'prompt' in input_data
\* raises, which the except clause of line 177 turns into a result.  The
\* workflow template has the nodes _update_workflow_parameters writes to.
Handled(d) ==
    IF ~d.mapping THEN [status |-> "error", error |-> "Internal server error"]
    ELSE IF validate_input(d) # "None"
    THEN [status |-> "error", error |-> validate_input(d)]
    ELSE [status |-> "success", error |-> "none"]

\* handler(event) called directly (lines 187-191).
ComfyUIHandler_handler ==
    /\ result = NoResult /\ status_code = 0
    /\ result' = Handled(event)
    /\ UNCHANGED <<supVars, lbVars, spliceVars, jobVars, ovVars, event, status_code>>

\* GenerateRequest (src/test-api-dev-local/runpod_mock_server.py lines
\* 50-56): the body is a mapping, prompt a text of one character at least,
\* width and height integers in 64..2048; a text that reads as an integer is
\* converted.
Accepted(d) ==
    /\ d.mapping
    /\ d.prompt \in {"blank", "text"}
    /\ \A v \in {d.width, d.height} :
          v.type \in {"int", "numeric str"} /\ v.n >= 64 /\ v.n <= 2048

\* The event run_sync builds from a request (lines 95-104).
EventOf(d) ==
    [d EXCEPT !.width = [type |-> "int", n |-> d.width.n],
              !.height = [type |-> "int", n |-> d.height.n]]

\* POST /runsync (lines 83-126): a body GenerateRequest does not accept is
\* answered with 422; the HTTPException with status 400 is raised inside the
\* try block, whose except Exception clause raises one with status 500.
run_sync ==
    /\ result = NoResult /\ status_code = 0
    /\ IF ~Accepted(event)
         THEN status_code' = 422 /\ UNCHANGED result
         ELSE /\ result' = Handled(EventOf(event))
              /\ status_code' = IF result'.status = "error" THEN 500 ELSE 200
    /\ UNCHANGED <<supVars, lbVars, spliceVars, jobVars, ovVars, event>>

(* -------------------- the load balancer (src/app/app.py) -------------- *)
WorkerIds == 1..MaxWorkers

\* The cpu_usage values a heartbeat reports.
CpuValues == {0, 50}

\* The status values a worker registers with.
StatusValues == {"healthy", "error"}

\* The position of worker id in the dict workers, 0 when it is not a key.
Index(id) ==
    IF \E i \in DOMAIN workers : workers[i].worker_id = id
    THEN CHOOSE i \in DOMAIN workers : workers[i].worker_id = id
    ELSE 0

\* Lines 87-94: workers[worker_id] = WorkerStatus(...).  An assignment to a
\* key of the dict keeps the place of the key; a new key comes last.
register_worker(id, st) ==
    /\ LET w == [worker_id |-> id, status |-> st, last_ping |-> now,
                 current_jobs |-> 0, cpu_usage |-> 0]
       IN  workers' = IF Index(id) # 0 THEN [workers EXCEPT ![Index(id)] = w]
                      ELSE Append(workers, w)
    /\ UNCHANGED <<tplVars, ovVars, supVars, spliceVars, jobVars, request_queue, request_count, active_jobs, forwards,
                   reply>>

\* Lines 101-103.
worker_heartbeat(id, cpu) ==
    /\ workers' = IF Index(id) # 0
                   THEN [workers EXCEPT ![Index(id)].last_ping = now,
                                        ![Index(id)].cpu_usage = cpu]
                   ELSE workers
    /\ UNCHANGED <<tplVars, ovVars, supVars, spliceVars, jobVars, request_queue, request_count, active_jobs, forwards,
                   reply>>

\* A dict without the key k.
Without(d, k) == [j \in DOMAIN d \ {k} |-> d[j]]

\* Lines 110-115: the notification of a worker that a job has ended.
job_completed(id, job) ==
    /\ IF Index(id) # 0
         THEN /\ workers' = [workers EXCEPT ![Index(id)].current_jobs =
                                 IF @ - 1 > 0 THEN @ - 1 ELSE 0]
              /\ active_jobs' = Without(active_jobs, job)
         ELSE UNCHANGED <<workers, active_jobs>>
    /\ UNCHANGED <<tplVars, ovVars, supVars, spliceVars, jobVars, request_queue, request_count, forwards, reply>>

\* The sort key of line 131 for worker a is not greater than that for b.
KeyLeq(a, b) ==
    \/ a.current_jobs < b.current_jobs
    \/ a.current_jobs = b.current_jobs /\ a.cpu_usage <= b.cpu_usage

\* list.sort(key=...) of line 131: a stable sort; x is put behind the items
\* whose key is not greater than its own.
RECURSIVE Insert(_, _)
Insert(x, s) ==
    IF s = <<>> THEN <<x>>
    ELSE IF KeyLeq(Head(s), x) THEN <<Head(s)>> \o Insert(x, Tail(s))
    ELSE <<x>> \o s

RECURSIVE sort(_)
sort(s) ==
    IF s = <<>> THEN <<>>
    ELSE Insert(s[Len(s)], sort(SubSeq(s, 1, Len(s) - 1)))

\* Line 124.
Available(w) == w.status = "healthy" /\ w.current_jobs < 3

\* find_best_worker without the sort of line 131.
find_best_worker_Unsorted ==
    LET available_workers == SelectSeq(workers, Available)
    IN  IF available_workers = <<>> THEN None
        ELSE available_workers[1].worker_id

\* Lines 120-132.
find_best_worker ==
    LET available_workers == SelectSeq(workers, Available)
    IN  IF available_workers = <<>> THEN None
        ELSE sort(available_workers)[1].worker_id

\* Lines 137-172: POST /submit_workflow.  The request is number request_count,
\* and so is its job.
lb_submit_workflow ==
    /\ request_count < MaxRequests
    /\ request_count' = request_count + 1
    /\ IF Len(request_queue) >= MAX_QUEUE_SIZE
         THEN /\ reply' = [status |-> "503", worker_id |-> None]
              /\ UNCHANGED <<workers, request_queue, active_jobs, forwards>>
         ELSE LET worker_id == find_best_worker
              IN  IF worker_id = None
                  THEN /\ request_queue' = Append(request_queue, request_count')
                       /\ reply' = [status |-> "queued", worker_id |-> None]
                       /\ UNCHANGED <<workers, active_jobs, forwards>>
                  ELSE /\ active_jobs' = (request_count' :> worker_id) @@ active_jobs
                       /\ workers' = [workers EXCEPT ![Index(worker_id)].current_jobs = @ + 1]
                       /\ forwards' = forwards \cup {<<request_count', worker_id>>}
                       /\ reply' = [status |-> "assigned", worker_id |-> worker_id]
                       /\ UNCHANGED request_queue
    /\ UNCHANGED <<tplVars, ovVars, supVars, spliceVars, jobVars>>

\* Lines 174-194: the background task of a job sends it to its worker; when
\* that fails the worker is marked.
forward_to_worker(f, ok) ==
    /\ f \in forwards
    /\ forwards' = forwards \ {f}
    /\ workers' = IF ~ok /\ Index(f[2]) # 0
                   THEN [workers EXCEPT ![Index(f[2])].status = "error"]
                   ELSE workers
    /\ UNCHANGED <<tplVars, ovVars, supVars, spliceVars, jobVars, request_queue, request_count, active_jobs, reply>>

\* restart_cooldown seconds pass, which is more than WORKER_TIMEOUT: the
\* moments of the clock in between make no difference to the load balancer.
Minute ==
    /\ clock + 2 <= MaxTicks
    /\ clock' = clock + 2
    /\ UNCHANGED <<tplVars, ovVars, entered, lbVars, spliceVars, jobVars, mgrVars, osVars, hcVars, thrVars>>

\* Lines 203-204.
Inactive(w) == now - w.last_ping > WORKER_TIMEOUT

Active(w) == ~Inactive(w)

\* Lines 199-209: one round of cleanup_workers.
cleanup_workers ==
    /\ \E i \in DOMAIN workers : Inactive(workers[i])
    /\ workers' = SelectSeq(workers, Active)
    /\ UNCHANGED <<tplVars, ovVars, supVars, spliceVars, jobVars, request_queue, request_count, active_jobs, forwards,
                   reply>>

(* ------------------------------- Spec --------------------------------- *)
\* The steps of the threads and of the environment, whatever is requested.
Internal ==
    \/ Startup
    \/ StartupHealth
    \/ \E t \in Threads : StartCheck(t)
    \/ \E t \in Threads : StartSpawn(t)
    \/ \E t \in Threads : StartRecord(t)
    \/ \E t \in Threads : StartMonitor(t)
    \/ \E t \in HealthCallers : StopCheck(t)
    \/ \E t \in HealthCallers : StopWait(t)
    \/ \E m \in Monitors : MonLoop(m)
    \/ \E m \in Monitors : MonExit(m)
    \/ \E t \in HealthCallers : HcGate(t)
    \/ \E t \in HealthCallers : HcStamp(t)
    \/ \E t \in HealthCallers, a \in ProbeAnswers : HcProbe(t, a)
    \/ HlReset
    \/ \E p \in Pids : ChildExit(p)
    \/ Tick

\* The supervisor with clients that restart, stop and kill the engine.
Next ==
    \/ Internal
    \/ \E o \in {"restart", "stop", "kill"} : ApiCall(o)
    \/ Kill("api")

Spec == Init /\ [][Next]_vars

\* The supervisor with clients that poll GET /health.
HealthNext ==
    \/ Internal
    \/ \E o \in {"health"} : ApiCall(o)

HealthSpec == Init /\ [][HealthNext]_vars

\* The supervisor with clients that restart the engine.
RestartNext ==
    \/ Internal
    \/ restart_comfyui

RestartSpec == Init /\ [][RestartNext]_vars

\* The steps of a thread running _monitor.
MonitorStep(m) ==
    \/ MonLoop(m)
    \/ MonExit(m)
    \/ StartCheck(m)
    \/ StartSpawn(m)
    \/ StartRecord(m)
    \/ StartMonitor(m)

\* The supervisor left to itself after startup_event: the crash monitor, the
\* health loop, the engine and the clock, and no request.  A thread running
\* _monitor is scheduled again and again: its sleeps (lines 222 and 226) end.
SelfHealSpec ==
    /\ Init
    /\ [][Internal]_vars
    /\ \A m \in Monitors : WF_vars(MonitorStep(m))

\* The supervisor after a successful startup_event: the engine runs, the
\* monitor and the health loop are started.
Started ==
    /\ process = 1 /\ running = TRUE /\ restart_count = 1 /\ last_restart = Epoch
    /\ monitor_thread = "m1"
    /\ live = {1} /\ nextPid = 1 /\ clock = 0
    /\ last_health_check = 0 /\ consecutive_failures = 0
    /\ streak = 0 /\ counted = 0
    /\ pc = [t \in Threads |-> CASE t = "api" -> "idle"
                                 [] t = "hl" -> "hc_gate"
                                 [] t = "m1" -> "mon_loop"
                                 [] OTHER -> "dead"]
    /\ op = [t \in Threads |-> "none"]
    /\ cur = [t \in Threads |-> 0]
    /\ ret = [t \in Threads |-> IF t = "api" THEN "True" ELSE "None"]
    /\ sent = [t \in Threads |-> {}]
    /\ branch = "none"
    /\ entered = NotEntered

JobInit == Started /\ NoJob /\ NoFleet /\ NoSplice /\ NoOverlap /\ NoCall

\* Jobs arriving one after another at the entry points, with an engine that
\* may exit at any moment.
JobNext ==
    \/ \E e \in Entries : \E p \in Jobs(e) :
          \E n \in (IF e = "process_workflow" THEN 0..1 ELSE {0}) : Receive(e, p, n)
    \/ process_workflow
    \/ \E a \in {"200", "non200", "exception"} : Preflight(a)
    \/ Upload
    \/ \E a \in {"200 id", "200 no id", "non200", "exception"} : Submit(a)
    \/ \E h \in HistoryAnswers : \E f \in FetchAnswers(h.images) : Poll(h, f)
    \/ \E a \in {"200", "non200", "exception"} : initialize(a)
    \/ handler_async
    \/ inject_input_data
    \/ \E a \in {"200 id", "200 no id", "non200", "exception"} : submit_workflow(a)
    \/ \E a \in {"not running", "running", "non200", "exception"} : wait_for_completion(a)
    \/ \E h \in HistoryAnswers : \E f \in FetchAnswers(h.images) : get_workflow_result(h, f)
    \/ handler
    \/ \E a \in {"200 id", "200 no id", "exception"} : queue_workflow(a)
    \/ \E h \in HistoryAnswers : \E f \in FetchAnswers(h.images) : get_history(h, f)
    \/ \E p \in Pids : ChildExit(p)

JobSpec == JobInit /\ [][JobNext]_vars

\* The steps of a job that has arrived, with the history answers H: the
\* coroutine of the entry point is run by its event loop until it returns.
Progress(H) ==
    \/ process_workflow
    \/ \E a \in {"200", "non200", "exception"} : Preflight(a)
    \/ Upload
    \/ \E a \in {"200 id", "200 no id", "non200", "exception"} : Submit(a)
    \/ \E h \in H : \E f \in FetchAnswers(h.images) : Poll(h, f)
    \/ \E a \in {"200", "non200", "exception"} : initialize(a)
    \/ handler_async
    \/ inject_input_data
    \/ \E a \in {"200 id", "200 no id", "non200", "exception"} : submit_workflow(a)
    \/ \E a \in {"not running", "running", "non200", "exception"} : wait_for_completion(a)
    \/ \E h \in H : \E f \in FetchAnswers(h.images) : get_workflow_result(h, f)
    \/ handler
    \/ \E a \in {"200 id", "200 no id", "exception"} : queue_workflow(a)
    \/ \E h \in H : \E f \in FetchAnswers(h.images) : get_history(h, f)

FairJobNext ==
    \/ \E e \in Entries : \E p \in Jobs(e) :
          \E n \in (IF e = "process_workflow" THEN 0..1 ELSE {0}) : Receive(e, p, n)
    \/ Progress(Histories(MaxListed))
    \/ \E p \in Pids : ChildExit(p)

\* Jobs whose entry point keeps running: every HTTP request of a job ends
\* (with an answer or with the exception of its timeout) and every sleep of
\* its loop ends.  The history entries list up to MaxListed images.
FairJobSpec ==
    /\ JobInit
    /\ [][FairJobNext]_vars
    /\ WF_vars(Progress(Histories(MaxListed)))

\* The workflows of a job: up to MaxNodes nodes; the dev worker rejects an
\* empty one (line 113), the other one asks only for the key "nodes".
Workflows(e) ==
    IF e = "handler_async"
    THEN UNION { [1..n -> GraphNodes] : n \in 0..MaxNodes }
    ELSE UNION { [1..n -> FlatNodes] : n \in 1..MaxNodes }

\* A worker whose process_workflow has validated the workflow of a job, for
\* every workflow and input.
SpliceInit ==
    /\ Started /\ NoFleet /\ NoOverlap /\ NoCall
    /\ entry \in Workers
    /\ payload = (IF entry = "handler_async" THEN "graph" ELSE "flat")
    /\ uploads = 0
    /\ initialized = [e \in Workers |-> e = entry]
    /\ jpc = "inject"
    /\ calls = {}
    /\ polls = 0
    /\ retries = 0
    /\ late = FALSE
    /\ seen = NoHistory
    /\ fetches = <<>>
    /\ outcome = NoOutcome
    /\ prompt_id = "unset"
    /\ workflow \in Workflows(entry)
    /\ received = workflow
    /\ input_data \in (IF entry = "handler_async" THEN GraphInputs ELSE FlatInputs)
    /\ posted = <<>>
    /\ failed = FALSE

SpliceNext ==
    \/ inject_input_data
    \/ \E a \in {"200 id", "200 no id", "non200", "exception"} : submit_workflow(a)

SpliceSpec == SpliceInit /\ [][SpliceNext]_vars

\* Calls of one entry point that overlap, on a started supervisor.
OverlapInit ==
    /\ Started /\ NoFleet /\ NoSplice /\ NoOverlap /\ NoCall
    /\ entry \in Workers \cup {"process_workflow"}
    /\ payload = "graph"
    /\ uploads = 0
    /\ initialized \in [Workers -> BOOLEAN]
    /\ jpc = "idle"
    /\ calls = {}
    /\ polls = 0
    /\ retries = 0
    /\ late = FALSE
    /\ seen = NoHistory
    /\ fetches = <<>>
    /\ outcome = NoOutcome
    /\ prompt_id = "unset"

OverlapNext ==
    \/ \E j \in Slots : Arrive(j)
    \/ \E j \in Slots : \E a \in {"200", "non200", "exception"} :
          \E more \in BOOLEAN : Probe(j, a, more)
    \/ \E j \in Slots : \E a \in {"200 id", "200 no id", "non200", "exception"} : Post(j, a)
    \/ \E j \in Slots : \E a \in {"200", "non200", "exception"} :
          \E is_late \in BOOLEAN : Wait(j, a, is_late)
    \/ \E j \in Slots : \E a \in {"200", "non200", "exception"} :
          \E f \in FetchAnswers(<<OutputOf(1)>>) \cup {<<>>} : Result(j, a, f)
    \/ \E j \in Slots : \E a \in {"200", "non200", "exception"} :
          \E f \in FetchAnswers(<<OutputOf(1)>>) \cup {<<>>} :
             \E is_late \in BOOLEAN : Round(j, a, f, is_late)
    \/ \E i \in Ids : EngineRun(i)
    \/ \E i \in Ids : \E m \in {"success", "error"} : EngineEnd(i, m)

OverlapSpec == OverlapInit /\ [][OverlapNext]_vars

\* The template handler called directly and through the mock API, for
\* every event.
TemplateInit ==
    /\ Started /\ NoJob /\ NoFleet /\ NoSplice /\ NoOverlap
    /\ event \in Events
    /\ result = NoResult
    /\ status_code = 0

TemplateNext ==
    \/ ComfyUIHandler_handler
    \/ run_sync

TemplateSpec == TemplateInit /\ [][TemplateNext]_vars

\* The load balancer with its workers and its clients.
BalancerNext ==
    \/ \E id \in WorkerIds, st \in StatusValues : register_worker(id, st)
    \/ \E id \in WorkerIds, cpu \in CpuValues : worker_heartbeat(id, cpu)
    \/ \E id \in WorkerIds, job \in 1..MaxRequests : job_completed(id, job)
    \/ lb_submit_workflow
    \/ \E f \in forwards, ok \in BOOLEAN : forward_to_worker(f, ok)
    \/ cleanup_workers
    \/ Minute

BalancerSpec == Init /\ [][BalancerNext]_vars

\* The load balancer with its event loop running: a background task that was
\* added (line 164) is run, and the cleanup task (lines 196-211) has its rounds.
\* Nothing is assumed of the clients and of the workers.
FairBalancerSpec ==
    /\ Init
    /\ [][BalancerNext]_vars
    /\ WF_vars(\E f \in forwards, ok \in BOOLEAN : forward_to_worker(f, ok))
    /\ WF_vars(cleanup_workers)

TypeOK ==
    /\ process \in {None} \cup Pids
    /\ running \in BOOLEAN
    /\ live \subseteq Pids
    /\ clock \in 0..MaxTicks
    /\ streak \in 0..max_failures
    /\ consecutive_failures \in 0..MaxCount

(* ----------------------- properties of the manager ------------------- *)
\* C1: start() called while the child is alive returns success at once: the
\* handle (the pid) and restart_count are what they were, and nothing is
\* launched.
C1_StartWhileRunning ==
    [][\A t \in Threads :
          (pc[t] = "start_check" /\ Alive /\ pc'[t] # "start_check")
             => /\ pc'[t] = StartRet(t, TRUE)
                /\ (t = "api" => ret'[t] = "True")
                /\ process' = process
                /\ restart_count' = restart_count
                /\ last_restart' = last_restart
                /\ live' = live
                /\ nextPid' = nextPid]_vars

\* A request's start() has found the child alive and has returned True.
C1_Witness ==
    /\ pc["api"] = "idle"
    /\ ret["api"] = "True"
    /\ branch = "already running"
    /\ Alive
    /\ restart_count >= 1

\* C2: whatever the interleaving of start, stop, kill and restart from the
\* request handlers, the crash monitor and the health loop, at most one child
\* process is alive.
C2_AtMostOneLiveChild == Cardinality(live) <= 1

\* C3: stop() does not return while the child it sent SIGTERM to is alive.
C3_StopOutlivesItsChild ==
    [][\A t \in HealthCallers :
          (pc[t] = "stop_wait" /\ pc'[t] = StopRet(t) /\ ret'[t] # "raised")
             => sent[t] \cap live' = {}]_vars

\* C4: stop() on a handle that is already stopped (running false, handle
\* cleared) returns normally with the same state and sends no signal; so does
\* kill().
C4_StopKillIdempotent ==
    [][/\ \A t \in HealthCallers :
            (pc[t] = "stop_check" /\ process = None /\ ~running /\ pc'[t] # "stop_check")
               => /\ process' = None /\ ~running'
                  /\ sent'[t] = {} /\ live' = live
                  /\ restart_count' = restart_count /\ last_restart' = last_restart
                  /\ pc'[t] = StopRet(t) /\ ret'[t] # "raised"
       /\ (pc["api"] = "kill_check" /\ process = None /\ ~running /\ pc'["api"] # "kill_check")
               => /\ process' = None /\ ~running'
                  /\ live' = live
                  /\ restart_count' = restart_count /\ last_restart' = last_restart
                  /\ pc'["api"] = "idle" /\ ret'["api"] = "None"]_vars

\* POST /stop has returned from a stop() that found the handle cleared, after
\* a child had been launched and stopped.
C4_Witness ==
    /\ pc["api"] = "idle"
    /\ branch = "stop: no handle"
    /\ ret["api"] = "None"
    /\ process = None /\ ~running
    /\ restart_count >= 1

\* C5: with max_restarts launches recorded, start() on a stopped child less
\* than restart_cooldown seconds after the last launch returns False and
\* launches nothing; restart_cooldown seconds or more after the last launch
\* it goes on to launch, and a launch then recorded is reported as success.
C5_RestartThrottle ==
    [][\A t \in Threads :
          /\ (pc[t] = "start_check" /\ pc'[t] # "start_check" /\ ~Alive
                /\ restart_count >= max_restarts
                /\ now - last_restart < restart_cooldown)
               => /\ pc'[t] = StartRet(t, FALSE)
                  /\ (t = "api" => ret'[t] = "False")
                  /\ process' = process /\ live' = live /\ nextPid' = nextPid
                  /\ restart_count' = restart_count /\ last_restart' = last_restart
          /\ (pc[t] = "start_check" /\ pc'[t] # "start_check" /\ ~Alive
                /\ now - last_restart >= restart_cooldown)
               => pc'[t] = "start_spawn"
          /\ (pc[t] = "start_spawn" /\ pc'[t] # "start_spawn")
               => \/ nextPid' = nextPid + 1 /\ process' = nextPid' /\ process' \in live'
                  \/ pc'[t] = StartRet(t, FALSE) /\ live' = live]_vars

\* A request's start() was refused by the limit, and later, a cooldown after
\* the second launch, a third launch was made and recorded.
C5_Witness ==
    /\ pc["api"] = "idle"
    /\ ret["api"] = "False"
    /\ branch = "throttled"
    /\ restart_count = max_restarts + 1
    /\ last_restart >= Epoch + restart_cooldown
    /\ Alive

(* -------------------- properties of the health checker ----------------- *)
\* A check_health() call of thread t returns a verdict in this step.
Judging(t) ==
    /\ pc[t] \in {"hc_stamp", "hc_probe"}
    /\ pc'[t] \notin {"hc_stamp", "hc_probe"}

C7_Debounce ==
    [][\A t \in HealthCallers :
          (pc[t] = "hc_gate" /\ pc'[t] # "hc_gate"
             /\ now - last_health_check < health_check_interval)
             => /\ (t = "api" => ret'[t] = "ok")
                /\ pc'[t] = HcRet(t, "ok", consecutive_failures)
                /\ consecutive_failures' = consecutive_failures
                /\ last_health_check' = last_health_check]_vars

\* GET /health has been answered with the skipped status after a real check.
C7_Witness ==
    /\ pc["api"] = "idle"
    /\ ret["api"] = "ok"
    /\ last_health_check >= Epoch

\* C8: of the check_health() calls of the request handlers and of the health
\* loop, no two made less than health_check_interval seconds apart are both
\* past the gate.
C8_OneCheckPerInterval ==
    ~ /\ pc["api"] = "hc_stamp"
      /\ pc["hl"] = "hc_stamp"
      /\ cur["api"] - cur["hl"] < health_check_interval
      /\ cur["hl"] - cur["api"] < health_check_interval

Crashed == running /\ process # None /\ process \notin live

\* The restart limit of lines 128-129 is in force.
Throttled == restart_count >= max_restarts /\ now - last_restart < restart_cooldown

\* C18, as the code has it: a monitor in its loop while the child has exited
\* with the running flag set calls start(), unless another thread has cleared
\* the running flag or launched a child before the monitor looks; a child it
\* launches is alive, and is_running() holds once the launch is recorded with
\* that child alive; a monitor whose start() fails (the limit, or a spawn
\* that is refused) leaves its loop, and its thread ends.
C18_MonitorRestarts ==
    /\ \A m \in Monitors :
          (pc[m] = "mon_loop" /\ Crashed)
             ~> (pc[m] = "start_check" \/ ~running \/ Alive)
    /\ \A m \in Monitors : (pc[m] = "mon_exit") ~> (pc[m] = "dead")
    /\ [][\A m \in Monitors :
            /\ (pc[m] = "mon_loop" /\ pc'[m] # "mon_loop" /\ Crashed)
                  => pc'[m] = "start_check"
            /\ (pc[m] = "start_spawn" /\ pc'[m] = "start_record") => Alive'
            /\ (pc[m] = "start_record" /\ pc'[m] # "start_record" /\ Alive)
                  => is_running'
            /\ (pc[m] = "start_check" /\ pc'[m] # "start_check" /\ ~Alive /\ Throttled)
                  => pc'[m] = "mon_exit"
            /\ (pc[m] = "start_spawn" /\ pc'[m] # "start_spawn" /\ nextPid' = nextPid)
                  => pc'[m] = "mon_exit"]_vars

\* The monitor has launched a second child after the first one exited; the
\* health loop has not made a check.
C18_Witness ==
    /\ last_health_check = 0
    /\ restart_count = 2
    /\ process = 2
    /\ is_running
    /\ pc["m1"] = "mon_loop"
    /\ pc["api"] = "idle"

\* C18, as stated: a monitor in its loop while the child has exited with the
\* running flag set calls start().
C18_AsStated ==
    \A m \in Monitors : (pc[m] = "mon_loop" /\ Crashed) ~> (pc[m] = "start_check")

\* C19: at most one thread runs the loop of _monitor, and one does whenever
\* is_running() holds and no start() is between its launch and its return.
C19_ExactlyOneMonitor ==
    LET active == {m \in Monitors : pc[m] \notin {"dead", "mon_exit"}}
    IN  /\ Cardinality(active) <= 1
        /\ (is_running /\ \A t \in Threads : pc[t] \notin {"start_record", "start_monitor"})
              => Cardinality(active) = 1

(* --------------------- properties of the handle ----------------------- *)
\* Thread t makes a step that evaluates self.process.poll(): the tests of
\* lines 122, 165, 183 and 220 and is_running() at line 50.
Polls(t) ==
    /\ pc[t] \in {"start_check", "stop_check", "kill_check", "mon_loop", "hc_stamp"}
    /\ pc'[t] # pc[t]

\* C22: while the running flag is set the handle holds a process, and the
\* last poll of that process has found it alive: no poll that finds the
\* process of the handle exited leaves the running flag set.
C22_RunningMeansAlive ==
    /\ [](running => process # None)
    /\ [][\A t \in Threads :
            (Polls(t) /\ process # None /\ process \notin live) => ~running']_vars

\* C23: after the start() of a request was refused by the restart limit, and
\* while the limit is in force (restart_count at max_restarts, less than
\* restart_cooldown seconds since the last launch), no thread launches a
\* child: not the crash monitor, not the health loop, not a restart request.
C23_NoLaunchWhileThrottled ==
    [][(Throttled /\ pc["api"] = "idle" /\ branch = "throttled")
          => nextPid' = nextPid /\ live' \subseteq live]_vars

\* The step of thread t at which the Popen of its start() raises
\* (lines 136 and 159-161): the call ends there.
SpawnFails(t) ==
    /\ pc[t] = "start_spawn"
    /\ pc'[t] \notin {"start_spawn", "start_record"}

\* C27: a start() whose process spawn fails returns failure (False, no
\* exception) and leaves restart_count, last_restart and the process handle
\* as they were, with is_running() false afterwards.
C27_FailedSpawn ==
    [][\A t \in Threads :
          SpawnFails(t)
            => /\ t = "api" => ret'["api"] = "False"
               /\ restart_count' = restart_count
               /\ last_restart' = last_restart
               /\ process' = process
               /\ ~is_running']_vars

\* C28: get_status() reports a pid only while the process is running: a
\* snapshot whose running is false has pid None, also after a crash that has
\* not been restarted yet.
C28_PidOnlyWhileRunning == ~get_status.running => get_status.pid = None

(* ------------------------- properties of a job ------------------------ *)
\* C24: no call of an entry point ends with an exception, whatever the job
\* is and whatever the engine answers: every call that has ended has
\* returned a result that says success or failure.
C24_NoExceptionEscapes ==
    /\ jpc # "raised"
    /\ jpc = "done" => outcome.status \in {"success", "True", "completed", "error", "False"}

\* C9: a job whose workflow is missing or empty ends in an error outcome, and
\* no request of any kind has gone to the engine for it, at every entry point.
C9_EmptyPayloadNoRequest ==
    (jpc = "done" /\ payload \in {"missing", "empty"})
       => /\ outcome.status \in {"error", "False"}
          /\ calls = {}

\* C10: a job whose poll loop has run into its deadline without a terminal
\* marker ends in the outcome timeout, which is not the outcome error.
C10_TimeoutOutcome ==
    (jpc = "done" /\ late) => outcome.status = "timeout"

\* The job has been submitted and its result is awaited.
Polling == jpc \in {"poll", "wait", "result"}

\* The statuses an entry point reports for a failure, and for a success.
Failure == {"error", "False"}

Success == {"success", "True", "completed"}

\* C11: a job that has been submitted reaches a terminal outcome, whatever
\* the engine answers to the requests for the queue and the history: the
\* rounds of the poll loop never exceed those up to the deadline.
C11_Terminates ==
    /\ [](polls <= MaxPolls)
    /\ (Polling ~> jpc = "done")

\* A job has ended at the deadline after rounds that all found nothing.
C11_Witness ==
    /\ jpc = "done"
    /\ late
    /\ polls = MaxPolls
    /\ "poll" \in calls

\* C12: a job that is not in the running queue and has no entry in the
\* history gets no terminal outcome from that answer: the step that reads
\* such an answer ends the job only at the deadline.
C12_KeepsPolling ==
    [][(Polling /\ jpc' = "done" /\ seen'.http = "200" /\ ~seen'.found) => late']_vars

\* C13: a job whose history entry carries the error marker ends in the
\* outcome error with the messages of the entry joined as its reason, never
\* in success or completed.
C13_ErrorMarker ==
    (jpc = "done" /\ seen.found /\ seen.marker = "error")
       => /\ outcome.status \in Failure
          /\ outcome.reason = Reason(seen.messages)

\* C14: a job for which a GET /view request failed (another status than 200,
\* or an exception) ends in the outcome error and returns no images.
C14_FetchFailureIsError ==
    (jpc = "done" /\ \E i \in 1..Len(fetches) : fetches[i] \in {"non200", "exception"})
       => /\ outcome.status \in Failure
          /\ outcome.images = <<>>

\* base64.b64decode of digits written as numbers, "=" as 64.
RECURSIVE b64decode(_)
b64decode(d) ==
    IF Len(d) < 4 THEN <<>>
    ELSE LET d3 == IF d[3] = 64 THEN 0 ELSE d[3]
             d4 == IF d[4] = 64 THEN 0 ELSE d[4]
             w  == d[1] * 262144 + d[2] * 4096 + d3 * 64 + d4
             b  == << w \div 65536, (w \div 256) % 256, w % 256 >>
             n  == IF d[3] = 64 THEN 1 ELSE IF d[4] = 64 THEN 2 ELSE 3
         IN  SubSeq(b, 1, n) \o b64decode(SubSeq(d, 5, Len(d)))

\* C15: a job of process_workflow or of a worker whose history entry carries
\* the success marker and lists N images, all of them served, returns success
\* with N artifacts in the order of the entry, each with the filename of its
\* image and the base64 text, not empty, of the bytes GET /view serves for
\* the reference of that image.
C15_ArtifactsMatch ==
    (/\ jpc = "done" /\ entry \in {"process_workflow"} \cup Workers
     /\ seen.found /\ seen.marker = "success"
     /\ Len(fetches) = Len(seen.images)
     /\ \A i \in 1..Len(fetches) : fetches[i] = "200")
       => /\ outcome.status \in Success
          /\ Len(outcome.images) = Len(seen.images)
          /\ \A i \in 1..Len(seen.images) :
                /\ outcome.images[i].filename = seen.images[i].filename
                /\ outcome.images[i].data # <<>>
                /\ b64decode(outcome.images[i].data) = Served(seen.images[i])

\* C16: a job of process_workflow with a workflow, arriving while the
\* supervisor reports the engine as not running, ends at once in the outcome
\* error (ComfyUI is not running), and no request has gone to the engine.
C16_NotRunningNoRequest ==
    [][(/\ entry = "process_workflow" /\ jpc = "validate" /\ jpc' # "validate"
        /\ payload \notin {"missing", "empty"} /\ ~is_running)
          => /\ jpc' = "done"
             /\ outcome'.status = "error"
             /\ outcome'.message = "ComfyUI is not running"
             /\ calls' = {}]_vars

\* A job with a workflow was refused because the engine had exited.
C16_Witness ==
    /\ jpc = "done"
    /\ entry = "process_workflow"
    /\ payload \in {"graph", "flat"}
    /\ outcome.message = "ComfyUI is not running"
    /\ calls = {}
    /\ ~is_running

\* C17: a job gets its outcome once, when it ends, and keeps it; the outcome
\* is a success or a failure, and it has images only when it is a success.
C17_OneTerminalState ==
    /\ [](/\ (jpc = "done") <=> (outcome.status \in Success \cup Failure)
          /\ (jpc # "done") <=> (outcome = NoOutcome)
          /\ outcome.images # <<>> => outcome.status \in Success)
    /\ [][outcome' # outcome
            => \/ jpc # "done" /\ jpc' = "done"
               \/ jpc = "done" /\ jpc' # "done" /\ outcome' = NoOutcome]_vars

\* A job has ended in success with all the images of its history entry.
C17_Witness ==
    /\ jpc = "done"
    /\ outcome.status = "success"
    /\ Len(outcome.images) = MaxImages
    /\ Len(seen.images) = MaxImages

\* C26: a restart() that returns success leaves a handle on a child that was
\* launched after restart() was entered, the child of the handle it was
\* entered with has exited, and restart_count is one more than it was.
C26_RestartRelaunches ==
    [][(/\ op["api"] = "restart" /\ pc["api"] # "idle"
        /\ pc'["api"] = "idle" /\ ret'["api"] = "True")
          => /\ process' # None
             /\ process' > entered.spawned
             /\ entered.pid \notin live'
             /\ restart_count' = entered.count + 1]_vars

\* C30: within one job the steps run in the order validate, pre-flight,
\* splice, submit, poll, artifact retrieval, report.  POST /prompt is sent
\* only for a workflow that passed the validation of its entry point, and by
\* process_workflow only after the supervisor reported the engine running and
\* the engine answered the probe; it is sent before any queue, history or view
\* request; a queue or history request is sent only after POST /prompt; a view
\* request only after a history request, which for the workers and handler
\* found an entry; and nothing is sent once the entry point has returned.
C30_StepOrder ==
    /\ []("submit" \in calls
            => /\ payload \in {"graph", "flat"}
               /\ entry = "handler_async" => payload = "graph"
               /\ entry = "process_workflow" => "probe" \in calls)
    /\ [](calls \cap {"poll", "history"} # {} => "submit" \in calls)
    /\ []("view" \in calls
            => IF entry \in Workers THEN "history" \in calls /\ seen.found
               ELSE IF entry = "handler" THEN "poll" \in calls /\ seen.found
               ELSE "poll" \in calls)
    /\ [][(entry = "process_workflow" /\ jpc = "validate" /\ jpc' = "preflight")
             => is_running]_vars
    /\ [][("submit" \in calls' /\ "submit" \notin calls)
             => calls' \cap {"poll", "history", "view"} = {}]_vars
    /\ [][(jpc \in {"done", "raised"} /\ jpc' = jpc) => calls' = calls]_vars

\* A job of process_workflow has gone through all the steps and has
\* returned its images.
C30_Witness ==
    /\ entry = "process_workflow" /\ jpc = "done"
    /\ {"probe", "submit", "poll", "view"} \subseteq calls
    /\ outcome.status = "success"
    /\ outcome.images # <<>>

\* C31: when the answer of the engine to the submission has no job
\* identifier, the job ends at once in an error: no queue, history or view
\* request is made for it.
C31_NoIdentifierEndsJob ==
    prompt_id = "None"
      => /\ jpc = "done"
         /\ outcome.status \in {"error", "False"}
         /\ calls \cap {"poll", "history", "view"} = {}

\* C32: jobs that overlap at one entry point do not mix: whatever the order
\* of their steps, also with both arriving before the worker object is
\* initialised, a job that waits for a prompt asks for the identifier the
\* engine gave to its own submission; a job that ends with a success has the
\* history entry of its own prompt and only the images of that entry; one
\* that ends with the engine's error has the error marker on its own prompt;
\* and one that ends as not found has no entry under its own identifier.
C32_OwnIdentifier ==
    /\ [](\A j \in Slots :
            /\ (jobs[j].pc \in {"wait", "result", "poll"} /\ jobs[j].prompt_id # None)
                 => jobs[j].prompt_id = given[j]
            /\ (jobs[j].pc = "done" /\ jobs[j].outcome.status \in {"True", "success"})
                 => /\ given[j] # None
                    /\ engine[given[j]] \in {"success", "error"}
                    /\ entry = "process_workflow" => engine[given[j]] = "success"
                    /\ \A i \in 1..Len(jobs[j].outcome.images) :
                          jobs[j].outcome.images[i] = Artifact(entry, OutputOf(given[j]))
            /\ (jobs[j].pc = "done" /\ jobs[j].outcome.message = "Workflow failed")
                 => given[j] # None /\ engine[given[j]] = "error")
    /\ [][\A j \in Slots :
            (/\ jobs[j].pc # "done" /\ jobs'[j].pc = "done"
             /\ jobs'[j].outcome.message = "Prompt not found in history")
               => given[j] = None \/ engine[given[j]] \notin {"success", "error"}]_vars

\* The first job has returned the image of its prompt while the second one is
\* waiting for a prompt of its own.
C32_Witness ==
    /\ jobs[1].pc = "done"
    /\ jobs[1].outcome.images # <<>>
    /\ jobs[2].pc \in {"wait", "result", "poll"}
    /\ given[2] # None

\* C33: the template handler returns the status error exactly when the input
\* lacks prompt, width or height, the prompt is not a text with a character
\* other than blanks, or width or height is not an integer in 1..2048 (an
\* integer written as a text counts as one); for every other input it
\* returns the status success.
C33_ErrorExactlyWhenInvalid ==
    (result # NoResult /\ status_code = 0)
      => /\ result.status \in {"error", "success"}
         /\ result.status = "error"
              <=> \/ ~event.mapping
                  \/ event.prompt # "text"
                  \/ \E v \in {event.width, event.height} :
                        ~(v.type \in {"int", "numeric str"} /\ v.n \in 1..2048)

\* C34: in the mock API every request for which the handler reports the
\* status error is answered by POST /runsync with the HTTP status 400, never
\* with 200 or 500.
C34_HandlerErrorIs400 ==
    (status_code # 0 /\ result.status = "error") => status_code = 400

\* C35: once a POST /stop or POST /kill has completed (the event loop is idle
\* again and the request returned normally), no child process is launched
\* until the control surface itself starts or restarts the engine: neither a
\* crash monitor nor the health loop spawns one.
C35_NoLaunchAfterStop ==
    [][(pc["api"] = "idle" /\ ret["api"] = "None") => nextPid' = nextPid]_vars

\* C36: with consecutive_failures at max_failures and the engine still
\* unhealthy the health loop comes to call manager.restart(), also when it is
\* a GET /health call that passes the gate.  In the form a finite run decides:
\* when a GET /health call has counted the failure that brings the counter to
\* max_failures, the call of check_health() the health loop makes next is not
\* turned away by the gate, so that the loop sees the error and restarts.
C36_LoopNotTurnedAway ==
    [][(/\ pc["api"] \in {"hc_stamp", "hc_probe"}
        /\ pc'["api"] = "idle"
        /\ ret'["api"] = "error"
        /\ consecutive_failures' >= max_failures
        /\ pc'["hl"] = "hc_gate")
         => now - last_health_check' >= health_check_interval]_vars

\* C37: the consecutive_failures value in the result of a check_health()
\* call (status error, starting or healthy) is the checker's counter as it is
\* when the call returns.
C37_ReportsCounter ==
    [][(/\ pc["api"] \in {"hc_stamp", "hc_probe"}
        /\ pc'["api"] = "idle"
        /\ ret'["api"] \in {"error", "starting", "healthy"})
         => Reported(ret'["api"], consecutive_failures') = consecutive_failures']_vars

\* C38: in the load balancer every registered worker's current_jobs is the
\* number of the entries of active_jobs that map a job to that worker.
C38_JobsCounted ==
    \A i \in DOMAIN workers :
        workers[i].current_jobs =
            Cardinality({j \in DOMAIN active_jobs :
                            active_jobs[j] = workers[i].worker_id})

\* C39: a request that POST /submit_workflow has put in the queue is assigned
\* to a worker in the end, unless at some later moment no healthy worker with
\* fewer than 3 jobs is registered.
C39_QueuedIsAssigned ==
    \A r \in 1..MaxRequests :
        []((\E i \in DOMAIN request_queue : request_queue[i] = r)
             => <>(r \in DOMAIN active_jobs \/ find_best_worker = None))

\* C40: _inject_input_data of the dev worker writes a field of a node (text,
\* width, height, seed) only when the job's input has a value for it; every
\* other field, and every node without such fields, is as it was received.
C40_OnlySuppliedFields ==
    (entry = "process_job" /\ jpc # "inject")
      => \A i \in DOMAIN received :
            /\ workflow[i].shape = received[i].shape
            /\ \A k \in InputKeys :
                  workflow[i].inputs[k] # received[i].inputs[k]
                    => InputKeyOf(k) \in input_data.keys

\* C29: when the input splicing of a worker fails part-way through the nodes,
\* the job goes on and the payload it posts to the engine is the workflow as
\* the job had it: no node carries a spliced value.
C29_SpliceFallsBack ==
    ("submit" \in calls /\ failed) => posted = received

(* -------------------- properties of the load balancer ------------------ *)
\* C25: find_best_worker returns a registered worker that is healthy and has
\* fewer than 3 current jobs, with the fewest current jobs among those
\* workers and the lowest cpu_usage among those with as few jobs; it returns
\* None exactly when no worker is healthy with fewer than 3 jobs.  A request
\* that is not refused for a full queue is assigned to that worker, or queued
\* when there is none.
C25_BestWorker ==
    /\ [](LET able == {i \in DOMAIN workers :
                          workers[i].status = "healthy" /\ workers[i].current_jobs < 3}
          IN  /\ (find_best_worker = None) <=> (able = {})
              /\ find_best_worker # None
                    => \E i \in able :
                          /\ workers[i].worker_id = find_best_worker
                          /\ \A j \in able :
                                \/ workers[i].current_jobs < workers[j].current_jobs
                                \/ /\ workers[i].current_jobs = workers[j].current_jobs
                                   /\ workers[i].cpu_usage <= workers[j].cpu_usage)
    /\ [][(request_count' # request_count /\ Len(request_queue) < MAX_QUEUE_SIZE)
            => reply' = IF find_best_worker = None
                        THEN [status |-> "queued", worker_id |-> None]
                        ELSE [status |-> "assigned", worker_id |-> find_best_worker]]_vars

\* The last request went to the second worker of the dict, which had fewer
\* jobs than the first one, healthy with two jobs.
C25_Witness ==
    /\ Len(workers) = 2
    /\ reply = [status |-> "assigned", worker_id |-> workers[2].worker_id]
    /\ <<request_count, workers[2].worker_id>> \in forwards
    /\ workers[1].status = "healthy"
    /\ workers[1].current_jobs = 2
    /\ workers[2].current_jobs = 1

=============================================================================
